---- MODULE Spec2Model ----
(***************************************************************************)
(* A model of pluto-gps-sim (reference source: the 2019 variant with       *)
(* RINEX 2/3 readers; the 2018 variant has the same handoff and the same   *)
(* scheduler and differs in the maintenance period).                       *)
(*                                                                         *)
(* Three specifications share the module:                                  *)
(*   Spec      - the producer/consumer handoff of main() and                *)
(*               pluto_tx_thread_ep(), with the signal handler handle_sig() *)
(*   SpecSched - the channel scheduler allocateChannel()                    *)
(*   SpecTime  - the reception time of the synthesis loop and the 30 s      *)
(*               maintenance test                                           *)
(***************************************************************************)
EXTENDS Integers, Sequences, FiniteSets, TLC

(***************************************************************************)
(* Bounds of the model.                                                    *)
(***************************************************************************)
\* samples per frame (NUM_SAMPLES is 260000 in the source)
NumSamples == 2
\* frame tags written into the samples cycle through 1..MaxFrames
MaxFrames == 2

VARIABLES
    \* ---- handoff (Spec) ----
    exit,            \* plutotx.exit
    mutex,           \* owner of plutotx.data_mutex: "free", "main" or "tx"
    mutexDestroyed,  \* pthread_mutex_destroy has run on data_mutex
    condDestroyed,   \* pthread_cond_destroy has run on data_cond
    waiting,         \* the main thread is in the wait set of plutotx.data_cond
    iq_buff,         \* the shared I/Q buffer: sample index -> frame tag (0: calloc)
    tx_buffer,       \* the device buffer the consumer copies into
    ppc,             \* position of the main (synthesis) thread
    isamp,           \* main's sample index inside the fill loop
    cpc,             \* position of the TX (sink) thread
    csamp,           \* the TX thread's position inside memcpy
    hpc,             \* position of handle_sig ("none": no signal delivered yet)
    hthread,         \* the thread handle_sig runs on
    frame,           \* tag of the frame being filled / last filled (0: none yet)
    copies,          \* complete copies made since the last fill ended (saturates at 2)
    lost,            \* a filled frame was overwritten without any complete copy
    sdrFailed,       \* the TX thread left through an SDR backend failure
    \* ---- channel scheduler (SpecSched) ----
    chan,            \* chan[i].prn: the PRN on channel i (0: idle)
    allocatedSat,    \* allocatedSat[sv]: the channel of satellite sv, or -1
    pre,             \* chan and allocatedSat as they were before the last pass
    vis,             \* satellites checkSatVisibility reported visible in the last pass
    \* ---- reception time (SpecTime) ----
    gstart,          \* g0, the start time of the scenario: week, sec (in ms)
    grx,             \* reception time of the current iteration: week, sec (in ms)
    iter,            \* completed iterations of the synthesis loop
    lastGrx,         \* grx of the last completed iteration
    maintRan,        \* the maintenance body ran in the last completed iteration
    sinceMaint,      \* iterations completed since the last maintenance (-1: none yet)
    gap,             \* iterations between the last two maintenances (-1: fewer than two)
    \* ---- computeChecksum (SpecParity) ----
    ckSource,        \* the argument source: hi = source >> 30, lo = source & 0x3FFFFFFF
    ckNib,           \* the argument nib
    ckWord,          \* the word returned (-1: not called yet)
    ckDone,          \* computeChecksum has returned
    \* ---- generateNavMsg (SpecNav) ----
    navG,            \* the time g of the last call: week, sec (in ms)
    navSbf,          \* chan->sbf[isbf][iwrd], the source words from eph2sbf
    navG0,           \* chan->g0, the data bit reference time: week, sec (in s)
    dwrd,            \* chan->dwrd[0 .. N_DWRD-1], the channel's word ring
    navCalls,        \* calls of generateNavMsg made for the channel
    \* ---- readRinex2 / readRinex3 (SpecHeader, SpecRecords) ----
    rxPc,            \* position of the reader: "open", "header", "records", "returned"
    rxV3,            \* the reader is readRinex3
    rxFlags,         \* flags
    ionoTot,         \* ionoutc->tot
    ionoVflg,        \* ionoutc->vflg: "unset" (never assigned), "true", "false"
    rxSeen,          \* the iono/UTC header lines met so far
    rxGoodDutc,      \* a delta-UTC line whose tot is a multiple of 4096 was met
    rxRet,           \* the value returned (NoRet: not returned yet)
    rxIeph,          \* ieph
    rxG0,            \* g0 of the reader, in seconds (-1: g0.week == -1)
    rxEph,           \* eph[ieph][sv]: vflg, and per field line the block it was read from
    rxBlocks,        \* ephemeris blocks begun
    rxTouched,       \* the indices of the sets the reader has written into
    \* ---- start-up of main() (SpecStart) ----
    stPc,            \* position of main: "load", "window", "anchor", "select", "alloc",
                     \* "create", "stream", "exit_main", "exited"
    neph,            \* the value the reader returned
    eph,             \* eph[i][sv]: vflg, toc, toe (week, sec in ms)
    ephRead,         \* eph as the reader left it
    stG0,            \* g0, the scenario start time (week -1: not given)
    stAnchor,        \* g0 as the options left it
    timeoverwrite,   \* the -T option
    gmin,            \* gmin
    gmax,            \* gmax
    stIeph,          \* ieph, the current set of ephemerides (-1: none)
    stWnt,           \* ionoutc.wnt
    stTot,           \* ionoutc.tot
    stErr,           \* the error message printed ("none": none)
    exitCode,        \* exit status of the process (NoExit: still running)
    threadStarted,   \* pthread_create has started the TX thread
    framesMade,      \* the synthesis loop has run
    \* ---- ephemeris refresh in the maintenance pass (SpecMaint) ----
    mtNeph,          \* neph, the number of sets the reader returned
    mtEph,           \* eph[i][sv] of main: vflg, toc, toe
    mtIeph,          \* ieph, the current set of ephemerides
    mtGrx,           \* grx at the next maintenance pass
    mtPasses,        \* maintenance passes made
    mtChan,          \* chan[i].prn
    mtAlloc,         \* allocatedSat[sv]
    mtSbfSet,        \* the set chan[i].sbf was last built from by eph2sbf (-1: never)
    mtPrev,          \* ieph, grx and chan as they were before the last pass
    mtRead,          \* the first indices of eph used in the last pass
    mtSchedSbf,      \* mtSbfSet as it was when the last pass called allocateChannel
    \* ---- date2gps / gps2date (SpecDate) ----
    dcDir,           \* "date": date2gps then gps2date; "gps": gps2date then date2gps
    dcStep,          \* calls made
    dcDate,          \* the datetime_t at hand: y, m, d, hh, mm, sec
    dcGps,           \* the gpstime_t at hand: week, sec (in seconds)
    dcBack,          \* the result of the second call
    \* ---- code phase and data bit counters of a channel (SpecCode) ----
    cpTau,           \* rho.range / SPEED_OF_LIGHT of the channel, in half ms
    cpGrx,           \* grx: week, sec (in ms)
    cpRho0G,         \* chan->rho0.g, the time of the last range saved
    cpG0,            \* chan->g0, the data bit reference time: week, sec (in ms)
    cpAtStart,       \* iword, ibit, icode as computeCodePhase left them in the
                     \* last iteration
    cpCnt,           \* iword, ibit, icode after the last sample of that iteration
    cpIters,         \* iterations of the synthesis loop made
    cpPasses,        \* maintenance passes that called generateNavMsg for the channel
    \* ---- the sum of the channels in one I/Q sample (SpecSum) ----
    sumPc,           \* "channels": inside the channel loop; "stored": sample written
    sumChan,         \* i, the next channel of the channel loop
    sumAlloc,        \* channels with prn > 0 met in this sample
    i_acc,           \* the in-phase accumulator
    q_acc,           \* the quadrature accumulator
    sumOut           \* iq_buff[isamp*2] and iq_buff[isamp*2+1] as stored

hvars == <<exit, mutex, mutexDestroyed, condDestroyed, waiting, iq_buff, tx_buffer,
           ppc, isamp, cpc, csamp, hpc, hthread, frame, copies, lost, sdrFailed>>

schedVars == <<chan, allocatedSat, pre, vis>>

timeVars == <<gstart, grx, iter, lastGrx, maintRan, sinceMaint, gap>>

parVars == <<ckSource, ckNib, ckWord, ckDone>>

\* the state of the specifications of single functions
navVars == <<navG, navSbf, navG0, dwrd, navCalls>>

rinexVars == <<rxPc, rxV3, rxFlags, ionoTot, ionoVflg, rxSeen, rxGoodDutc, rxRet,
               rxIeph, rxG0, rxEph, rxBlocks, rxTouched>>

startVars == <<stPc, neph, eph, ephRead, stG0, stAnchor, timeoverwrite, gmin, gmax, stIeph, stWnt,
               stTot,
               stErr, exitCode, threadStarted, framesMade>>

maintVars == <<mtNeph, mtEph, mtIeph, mtGrx, mtPasses, mtChan, mtAlloc, mtSbfSet, mtPrev,
               mtRead, mtSchedSbf>>

\* the state of the specifications of single parts of the synthesis loop
dateVars == <<dcDir, dcStep, dcDate, dcGps, dcBack>>

codeVars == <<cpTau, cpGrx, cpRho0G, cpG0, cpAtStart, cpCnt, cpIters, cpPasses>>

sumVars == <<sumPc, sumChan, sumAlloc, i_acc, q_acc, sumOut>>

loopVars == <<maintVars, dateVars, codeVars, sumVars>>

fnVars == <<parVars, navVars, rinexVars, startVars, loopVars>>

coreVars == <<hvars, schedVars, timeVars, loopVars>>

vars == <<hvars, schedVars, timeVars, fnVars>>

Samples == 0 .. (NumSamples - 1)
Threads == {"main", "tx"}

(***************************************************************************)
(* pthread primitives.                                                     *)
(***************************************************************************)

\* A thread runs its own code only while it is not inside the signal handler.
InHandler(t) == hthread = t /\ hpc \notin {"none", "returned"}

\* pthread_mutex_unlock by thread t.  The owner releases the mutex.  Unlocking a
\* mutex the caller does not hold is undefined: it is released anyway (a default
\* mutex does not check its owner) or the call fails and changes nothing.
UnlockOutcomes(t) == {"free"} \cup (IF mutex = t THEN {} ELSE {mutex})

\* pthread_mutex_lock by thread t: TRUE when the step can be taken, with the new
\* owner in mutex'.  On a destroyed mutex the call is undefined: it works as
\* before or returns an error at once without the lock.
LockBy(t) ==
    \/ mutex = "free" /\ mutex' = t
    \/ mutexDestroyed /\ mutex' = mutex

\* pthread_cond_signal: wakes the one possible waiter (only main ever waits).
\* On a destroyed condition variable either that or nothing.
SignalOutcomes == {FALSE} \cup (IF condDestroyed THEN {waiting} ELSE {})

NextTag(f) == (f % MaxFrames) + 1

Min(a, b) == IF a < b THEN a ELSE b

(***************************************************************************)
(* Initial state of the handoff: right after pthread_create() in main().   *)
(***************************************************************************)
InitHandoff ==
    /\ exit = FALSE
    /\ mutex = "free"
    /\ mutexDestroyed = FALSE
    /\ condDestroyed = FALSE
    /\ waiting = FALSE
    /\ iq_buff = [s \in Samples |-> 0]
    /\ tx_buffer = [s \in Samples |-> 0]
    /\ ppc = "loop"
    /\ isamp = 0
    /\ cpc = "init"
    /\ csamp = 0
    /\ hpc = "none"
    /\ hthread = "main"
    /\ frame = 0
    /\ copies = 0
    /\ lost = FALSE
    /\ sdrFailed = FALSE

(***************************************************************************)
(* The main (synthesis) thread: the while loop of main() and its exit path.*)
(***************************************************************************)

\* while (!plutotx.exit)
MainLoopTest ==
    /\ ppc = "loop" /\ ~InHandler("main")
    /\ ppc' = IF exit THEN "exit_unlock" ELSE "range"
    /\ UNCHANGED <<exit, mutex, mutexDestroyed, condDestroyed, waiting, iq_buff,
                   tx_buffer, isamp, cpc, csamp, hpc, hthread, frame, copies, lost,
                   sdrFailed>>
    /\ UNCHANGED <<schedVars, timeVars, fnVars>>

\* the per-channel computeRange / computeCodePhase / gain loop (no shared state)
MainRange ==
    /\ ppc = "range" /\ ~InHandler("main")
    /\ ppc' = "lock"
    /\ UNCHANGED <<exit, mutex, mutexDestroyed, condDestroyed, waiting, iq_buff,
                   tx_buffer, isamp, cpc, csamp, hpc, hthread, frame, copies, lost,
                   sdrFailed>>
    /\ UNCHANGED <<schedVars, timeVars, fnVars>>

\* pthread_mutex_lock(&plutotx.data_mutex); isamp = 0
MainLock ==
    /\ ppc = "lock" /\ ~InHandler("main")
    /\ LockBy("main")
    /\ ppc' = "fill"
    /\ isamp' = 0
    /\ UNCHANGED <<exit, mutexDestroyed, condDestroyed, waiting, iq_buff, tx_buffer,
                   cpc, csamp, hpc, hthread, frame, copies, lost, sdrFailed>>
    /\ UNCHANGED <<schedVars, timeVars, fnVars>>

\* one pass of the sample loop: iq_buff[isamp*2], iq_buff[isamp*2+1] are written
MainFill ==
    /\ ppc = "fill" /\ ~InHandler("main")
    /\ isamp < NumSamples
    /\ LET tag == IF isamp = 0 THEN NextTag(frame) ELSE frame
           last == isamp + 1 = NumSamples
       IN /\ iq_buff' = [iq_buff EXCEPT ![isamp] = tag]
          /\ frame' = tag
          /\ lost' = (lost \/ (isamp = 0 /\ frame >= 1 /\ copies = 0))
          /\ copies' = IF last THEN 0 ELSE copies
          /\ isamp' = isamp + 1
          /\ ppc' = IF last THEN "signal" ELSE "fill"
    /\ UNCHANGED <<exit, mutex, mutexDestroyed, condDestroyed, waiting, tx_buffer,
                   cpc, csamp, hpc, hthread, sdrFailed>>
    /\ UNCHANGED <<schedVars, timeVars, fnVars>>

\* pthread_cond_signal(&plutotx.data_cond) by main
MainSignal ==
    /\ ppc = "signal" /\ ~InHandler("main")
    /\ waiting' \in SignalOutcomes
    /\ ppc' = "wait"
    /\ UNCHANGED <<exit, mutex, mutexDestroyed, condDestroyed, iq_buff, tx_buffer,
                   isamp, cpc, csamp, hpc, hthread, frame, copies, lost, sdrFailed>>
    /\ UNCHANGED <<schedVars, timeVars, fnVars>>

\* pthread_cond_wait(&plutotx.data_cond, &plutotx.data_mutex): release the mutex
\* and block, in one step.  With the condition variable or the mutex destroyed
\* the call is undefined: it blocks as before or returns an error at once.
MainWait ==
    /\ ppc = "wait" /\ ~InHandler("main")
    /\ \/ /\ waiting' = TRUE
          /\ mutex' = IF mutex = "main" THEN "free" ELSE mutex
          /\ ppc' = "waiting"
       \/ /\ (condDestroyed \/ mutexDestroyed)
          /\ UNCHANGED <<waiting, mutex>>
          /\ ppc' = "unlock"
    /\ UNCHANGED <<exit, mutexDestroyed, condDestroyed, iq_buff, tx_buffer, isamp,
                   cpc, csamp, hpc, hthread, frame, copies, lost, sdrFailed>>
    /\ UNCHANGED <<schedVars, timeVars, fnVars>>

\* pthread_cond_wait may return without any signal (POSIX: spurious wakeup); the
\* call site does not re-check a predicate.
SpuriousWakeup ==
    /\ ppc = "waiting" /\ waiting
    /\ waiting' = FALSE
    /\ UNCHANGED <<exit, mutex, mutexDestroyed, condDestroyed, iq_buff, tx_buffer,
                   ppc, isamp, cpc, csamp, hpc, hthread, frame, copies, lost,
                   sdrFailed>>
    /\ UNCHANGED <<schedVars, timeVars, fnVars>>

\* pthread_cond_wait returning: the mutex is taken again
MainWake ==
    /\ ppc = "waiting" /\ ~waiting /\ ~InHandler("main")
    /\ LockBy("main")
    /\ ppc' = "unlock"
    /\ UNCHANGED <<exit, mutexDestroyed, condDestroyed, waiting, iq_buff, tx_buffer,
                   isamp, cpc, csamp, hpc, hthread, frame, copies, lost, sdrFailed>>
    /\ UNCHANGED <<schedVars, timeVars, fnVars>>

\* pthread_mutex_unlock(&plutotx.data_mutex) at the end of the handoff
MainUnlock ==
    /\ ppc = "unlock" /\ ~InHandler("main")
    /\ mutex' \in UnlockOutcomes("main")
    /\ ppc' = "maint"
    /\ UNCHANGED <<exit, mutexDestroyed, condDestroyed, waiting, iq_buff, tx_buffer,
                   isamp, cpc, csamp, hpc, hthread, frame, copies, lost, sdrFailed>>
    /\ UNCHANGED <<schedVars, timeVars, fnVars>>

\* the 30 s maintenance test and body, incGpsTime, iumd++ (no shared state)
MainMaintenance ==
    /\ ppc = "maint" /\ ~InHandler("main")
    /\ ppc' = "loop"
    /\ UNCHANGED <<exit, mutex, mutexDestroyed, condDestroyed, waiting, iq_buff,
                   tx_buffer, isamp, cpc, csamp, hpc, hthread, frame, copies, lost,
                   sdrFailed>>
    /\ UNCHANGED <<schedVars, timeVars, fnVars>>

\* exit_main_thread: pthread_mutex_unlock(&plutotx.data_mutex)
MainExitUnlock ==
    /\ ppc = "exit_unlock" /\ ~InHandler("main")
    /\ mutex' \in UnlockOutcomes("main")
    /\ ppc' = "exit_set"
    /\ UNCHANGED <<exit, mutexDestroyed, condDestroyed, waiting, iq_buff, tx_buffer,
                   isamp, cpc, csamp, hpc, hthread, frame, copies, lost, sdrFailed>>
    /\ UNCHANGED <<schedVars, timeVars, fnVars>>

\* plutotx.exit = true
MainExitSet ==
    /\ ppc = "exit_set" /\ ~InHandler("main")
    /\ exit' = TRUE
    /\ ppc' = "join"
    /\ UNCHANGED <<mutex, mutexDestroyed, condDestroyed, waiting, iq_buff, tx_buffer,
                   isamp, cpc, csamp, hpc, hthread, frame, copies, lost, sdrFailed>>
    /\ UNCHANGED <<schedVars, timeVars, fnVars>>

\* pthread_join(pluto_thread); pthread_mutex_destroy; free(iq_buff); return 0
MainJoin ==
    /\ ppc = "join" /\ ~InHandler("main")
    /\ cpc = "done"
    /\ mutexDestroyed' = TRUE
    /\ ppc' = "done"
    /\ UNCHANGED <<exit, mutex, condDestroyed, waiting, iq_buff, tx_buffer, isamp,
                   cpc, csamp, hpc, hthread, frame, copies, lost, sdrFailed>>
    /\ UNCHANGED <<schedVars, timeVars, fnVars>>

(***************************************************************************)
(* The TX (sink) thread: pluto_tx_thread_ep().                             *)
(***************************************************************************)

\* context creation, device lookup, buffer creation: each may fail
\* (goto pluto_thread_exit)
TxInit ==
    /\ cpc = "init" /\ ~InHandler("tx")
    /\ \/ cpc' = "loop" /\ sdrFailed' = sdrFailed
       \/ cpc' = "exit_lock" /\ sdrFailed' = TRUE
    /\ UNCHANGED <<exit, mutex, mutexDestroyed, condDestroyed, waiting, iq_buff,
                   tx_buffer, ppc, isamp, csamp, hpc, hthread, frame, copies, lost>>
    /\ UNCHANGED <<schedVars, timeVars, fnVars>>

\* while (!plutotx.exit)
TxLoopTest ==
    /\ cpc = "loop" /\ ~InHandler("tx")
    /\ cpc' = IF exit THEN "exit_lock" ELSE "lock"
    /\ UNCHANGED <<exit, mutex, mutexDestroyed, condDestroyed, waiting, iq_buff,
                   tx_buffer, ppc, isamp, csamp, hpc, hthread, frame, copies, lost,
                   sdrFailed>>
    /\ UNCHANGED <<schedVars, timeVars, fnVars>>

\* pthread_mutex_lock(&plutotx.data_mutex)
TxLock ==
    /\ cpc = "lock" /\ ~InHandler("tx")
    /\ LockBy("tx")
    /\ cpc' = "copy"
    /\ csamp' = 0
    /\ UNCHANGED <<exit, mutexDestroyed, condDestroyed, waiting, iq_buff, tx_buffer,
                   ppc, isamp, hpc, hthread, frame, copies, lost, sdrFailed>>
    /\ UNCHANGED <<schedVars, timeVars, fnVars>>

\* memcpy(ptx_buffer, iq_buff, BUFFER_SIZE), one sample per step
TxCopy ==
    /\ cpc = "copy" /\ ~InHandler("tx")
    /\ csamp < NumSamples
    /\ tx_buffer' = [tx_buffer EXCEPT ![csamp] = iq_buff[csamp]]
    /\ csamp' = csamp + 1
    /\ IF csamp + 1 = NumSamples
       THEN cpc' = "signal" /\ copies' = Min(copies + 1, 2)
       ELSE cpc' = "copy" /\ copies' = copies
    /\ UNCHANGED <<exit, mutex, mutexDestroyed, condDestroyed, waiting, iq_buff,
                   ppc, isamp, hpc, hthread, frame, lost, sdrFailed>>
    /\ UNCHANGED <<schedVars, timeVars, fnVars>>

\* pthread_cond_signal(&plutotx.data_cond)
TxSignal ==
    /\ cpc = "signal" /\ ~InHandler("tx")
    /\ waiting' \in SignalOutcomes
    /\ cpc' = "unlock"
    /\ UNCHANGED <<exit, mutex, mutexDestroyed, condDestroyed, iq_buff, tx_buffer,
                   ppc, isamp, csamp, hpc, hthread, frame, copies, lost, sdrFailed>>
    /\ UNCHANGED <<schedVars, timeVars, fnVars>>

\* pthread_mutex_unlock(&plutotx.data_mutex)
TxUnlock ==
    /\ cpc = "unlock" /\ ~InHandler("tx")
    /\ mutex' \in UnlockOutcomes("tx")
    /\ cpc' = "push"
    /\ UNCHANGED <<exit, mutexDestroyed, condDestroyed, waiting, iq_buff, tx_buffer,
                   ppc, isamp, csamp, hpc, hthread, frame, copies, lost, sdrFailed>>
    /\ UNCHANGED <<schedVars, timeVars, fnVars>>

\* ntx = iio_buffer_push(tx_buffer); if (ntx < 0) break;
TxPush ==
    /\ cpc = "push" /\ ~InHandler("tx")
    /\ \/ cpc' = "loop" /\ sdrFailed' = sdrFailed
       \/ cpc' = "exit_lock" /\ sdrFailed' = TRUE
    /\ UNCHANGED <<exit, mutex, mutexDestroyed, condDestroyed, waiting, iq_buff,
                   tx_buffer, ppc, isamp, csamp, hpc, hthread, frame, copies, lost>>
    /\ UNCHANGED <<schedVars, timeVars, fnVars>>

\* pluto_thread_exit: device teardown, then pthread_mutex_lock
TxExitLock ==
    /\ cpc = "exit_lock" /\ ~InHandler("tx")
    /\ LockBy("tx")
    /\ cpc' = "exit_set"
    /\ UNCHANGED <<exit, mutexDestroyed, condDestroyed, waiting, iq_buff, tx_buffer,
                   ppc, isamp, csamp, hpc, hthread, frame, copies, lost, sdrFailed>>
    /\ UNCHANGED <<schedVars, timeVars, fnVars>>

\* plutotx.exit = true; // just in case
TxExitSet ==
    /\ cpc = "exit_set" /\ ~InHandler("tx")
    /\ exit' = TRUE
    /\ cpc' = "exit_signal"
    /\ UNCHANGED <<mutex, mutexDestroyed, condDestroyed, waiting, iq_buff, tx_buffer,
                   ppc, isamp, csamp, hpc, hthread, frame, copies, lost, sdrFailed>>
    /\ UNCHANGED <<schedVars, timeVars, fnVars>>

\* pthread_cond_signal(&plutotx.data_cond)
TxExitSignal ==
    /\ cpc = "exit_signal" /\ ~InHandler("tx")
    /\ waiting' \in SignalOutcomes
    /\ cpc' = "exit_unlock"
    /\ UNCHANGED <<exit, mutex, mutexDestroyed, condDestroyed, iq_buff, tx_buffer,
                   ppc, isamp, csamp, hpc, hthread, frame, copies, lost, sdrFailed>>
    /\ UNCHANGED <<schedVars, timeVars, fnVars>>

\* pthread_mutex_unlock(&plutotx.data_mutex); pthread_exit(NULL)
TxExitUnlock ==
    /\ cpc = "exit_unlock" /\ ~InHandler("tx")
    /\ mutex' \in UnlockOutcomes("tx")
    /\ cpc' = "done"
    /\ UNCHANGED <<exit, mutexDestroyed, condDestroyed, waiting, iq_buff, tx_buffer,
                   ppc, isamp, csamp, hpc, hthread, frame, copies, lost, sdrFailed>>
    /\ UNCHANGED <<schedVars, timeVars, fnVars>>

(***************************************************************************)
(* handle_sig(): installed for SIGINT, SIGTERM and SIGQUIT.  One delivery  *)
(* is modelled; the handler runs on the thread that receives the signal,   *)
(* which is suspended wherever it is until the handler returns.            *)
(***************************************************************************)

ThreadRunning(t) == IF t = "main" THEN ppc # "done" ELSE cpc # "done"

\* the signal arrives; signal(SIGINT, SIG_DFL)
SigDeliver ==
    /\ hpc = "none"
    /\ \E t \in Threads :
          /\ ThreadRunning(t)
          /\ hthread' = t
    /\ hpc' = "unlock"
    /\ UNCHANGED <<exit, mutex, mutexDestroyed, condDestroyed, waiting, iq_buff,
                   tx_buffer, ppc, isamp, cpc, csamp, frame, copies, lost, sdrFailed>>
    /\ UNCHANGED <<schedVars, timeVars, fnVars>>

\* pthread_mutex_unlock(&plutotx.data_mutex)
SigUnlock ==
    /\ hpc = "unlock"
    /\ mutex' \in UnlockOutcomes(hthread)
    /\ hpc' = "setexit"
    /\ UNCHANGED <<exit, mutexDestroyed, condDestroyed, waiting, iq_buff, tx_buffer,
                   ppc, isamp, cpc, csamp, hthread, frame, copies, lost, sdrFailed>>
    /\ UNCHANGED <<schedVars, timeVars, fnVars>>

\* plutotx.exit = true
SigSetExit ==
    /\ hpc = "setexit"
    /\ exit' = TRUE
    /\ hpc' = "join"
    /\ UNCHANGED <<mutex, mutexDestroyed, condDestroyed, waiting, iq_buff, tx_buffer,
                   ppc, isamp, cpc, csamp, hthread, frame, copies, lost, sdrFailed>>
    /\ UNCHANGED <<schedVars, timeVars, fnVars>>

\* pthread_join(pluto_thread, NULL): on the main thread it returns once the TX
\* thread has ended; on the TX thread itself it is a self-join, which fails with
\* EDEADLK (or never returns, which is the step not being taken).
SigJoin ==
    /\ hpc = "join"
    /\ (hthread = "main" => cpc = "done")
    /\ hpc' = "destroy"
    /\ UNCHANGED <<exit, mutex, mutexDestroyed, condDestroyed, waiting, iq_buff,
                   tx_buffer, ppc, isamp, cpc, csamp, hthread, frame, copies, lost,
                   sdrFailed>>
    /\ UNCHANGED <<schedVars, timeVars, fnVars>>

\* pthread_mutex_destroy; pthread_cond_destroy; return to the interrupted code
SigDestroy ==
    /\ hpc = "destroy"
    /\ mutexDestroyed' = TRUE
    /\ condDestroyed' = TRUE
    /\ hpc' = "returned"
    /\ UNCHANGED <<exit, mutex, waiting, iq_buff, tx_buffer, ppc, isamp, cpc, csamp,
                   hthread, frame, copies, lost, sdrFailed>>
    /\ UNCHANGED <<schedVars, timeVars, fnVars>>

Next ==
    \/ MainLoopTest \/ MainRange \/ MainLock \/ MainFill \/ MainSignal \/ MainWait
    \/ SpuriousWakeup \/ MainWake \/ MainUnlock \/ MainMaintenance
    \/ MainExitUnlock \/ MainExitSet \/ MainJoin
    \/ TxInit \/ TxLoopTest \/ TxLock \/ TxCopy \/ TxSignal \/ TxUnlock \/ TxPush
    \/ TxExitLock \/ TxExitSet \/ TxExitSignal \/ TxExitUnlock
    \/ SigDeliver \/ SigUnlock \/ SigSetExit \/ SigJoin \/ SigDestroy

(***************************************************************************)
(* The channel scheduler: allocateChannel().                               *)
(***************************************************************************)

\* satellites and channels (MAX_SAT is 32 and MAX_CHAN is 12 in the source)
MAX_SAT == 4
MAX_CHAN == 2

Sats == 0 .. (MAX_SAT - 1)
Chans == 0 .. (MAX_CHAN - 1)

\* initialisations of a channel that are told apart
MaxSetups == 2

\* a channel that was never used
IdleChannel == [prn |-> 0, setup |-> 0]

\* "Initialize channel": chan[i].prn = sv + 1, and azel, ca, sbf, dwrd, g0, rho0
\* and carr_phase are written from the satellite, the ephemeris and the time of
\* the call; setup stands for these fields, as the count of the
\* initialisations of the channel (modulo MaxSetups)
NewChannel(c, sv) == [prn |-> sv + 1, setup |-> (c.setup + 1) % MaxSetups]

\* checkSatVisibility(): 1 for a satellite with a valid ephemeris above the
\* horizon.  The caller only tests "== 1", so the results 0 (below the horizon)
\* and -1 (invalid ephemeris) are one case here.
checkSatVisibility(visible, sv) == IF sv \in visible THEN 1 ELSE 0

\* a scheduler that takes the last idle channel instead of the first
\* (a faulty variant, used to test what C9 is sensitive to)
FirstIdle_Last(ch) ==
    LET idle == {i \in Chans : ch[i].prn = 0}
    IN IF idle = {} THEN MAX_CHAN ELSE CHOOSE i \in idle : \A j \in idle : j <= i

\* for (i = 0; i < MAX_CHAN; i++) if (chan[i].prn == 0) { ...; break; }
\* the value of i after the loop: the first idle channel, or MAX_CHAN
FirstIdle(ch) ==
    LET idle == {i \in Chans : ch[i].prn = 0}
    IN IF idle = {} THEN MAX_CHAN ELSE CHOOSE i \in idle : \A j \in idle : i <= j

\* a loop body that clears the alloc entry of a satellite that has set but
\* leaves its PRN on the channel (a faulty variant, used to test what C7 is
\* sensitive to)
allocateSat_KeepPrn(st, sv, visible) ==
    IF checkSatVisibility(visible, sv) = 1
    THEN IF st.allocatedSat[sv] = -1
         THEN LET i == FirstIdle(st.chan)
              IN IF i < MAX_CHAN
                 THEN [chan |-> [st.chan EXCEPT ![i] = NewChannel(@, sv)],
                       allocatedSat |-> [st.allocatedSat EXCEPT ![sv] = i]]
                 ELSE st
         ELSE st
    ELSE IF st.allocatedSat[sv] >= 0
         THEN [chan |-> st.chan,
               allocatedSat |-> [st.allocatedSat EXCEPT ![sv] = -1]]
         ELSE st

\* a loop body that initialises the channel of a visible satellite again
\* (a faulty variant, used to test what C27 is sensitive to)
allocateSat_Again(st, sv, visible) ==
    IF checkSatVisibility(visible, sv) = 1
    THEN LET i == IF st.allocatedSat[sv] = -1 THEN FirstIdle(st.chan)
                  ELSE st.allocatedSat[sv]
         IN IF i < MAX_CHAN
            THEN [chan |-> [st.chan EXCEPT ![i] = NewChannel(@, sv)],
                  allocatedSat |-> [st.allocatedSat EXCEPT ![sv] = i]]
            ELSE st
    ELSE IF st.allocatedSat[sv] >= 0
         THEN [chan |-> [st.chan EXCEPT ![st.allocatedSat[sv]].prn = 0],
               allocatedSat |-> [st.allocatedSat EXCEPT ![sv] = -1]]
         ELSE st

\* the body of the for (sv ...) loop of allocateChannel, on
\* st = [chan, allocatedSat]: a visible satellite without a channel takes the
\* first idle channel, if there is one (channel initialisation: PRN, az/el, C/A
\* code, subframes, nav message, pseudorange, carrier phase); a satellite that
\* is not visible and has a channel gives it up
allocateSat(st, sv, visible) ==
    IF checkSatVisibility(visible, sv) = 1
    THEN IF st.allocatedSat[sv] = -1
         THEN LET i == FirstIdle(st.chan)
              IN IF i < MAX_CHAN
                 THEN [chan |-> [st.chan EXCEPT ![i] = NewChannel(@, sv)],
                       allocatedSat |-> [st.allocatedSat EXCEPT ![sv] = i]]
                 ELSE st
         ELSE st
    ELSE IF st.allocatedSat[sv] >= 0
         THEN [chan |-> [st.chan EXCEPT ![st.allocatedSat[sv]].prn = 0],
               allocatedSat |-> [st.allocatedSat EXCEPT ![sv] = -1]]
         ELSE st

\* the state after the loop has handled satellites 0 .. n-1
RECURSIVE ScanTo(_, _, _)
ScanTo(st, n, visible) ==
    IF n = 0 THEN st
    ELSE allocateSat(ScanTo(st, n - 1, visible), n - 1, visible)

allocateChannel(st, visible) == ScanTo(st, MAX_SAT, visible)

\* "Clear all channels", "Clear satellite allocation flag" in main()
InitSched ==
    /\ chan = [i \in Chans |-> IdleChannel]
    /\ allocatedSat = [sv \in Sats |-> -1]
    /\ pre = [chan |-> [i \in Chans |-> IdleChannel],
              allocatedSat |-> [sv \in Sats |-> -1]]
    /\ vis = {}

\* one call of allocateChannel(): at start-up and in every maintenance, with
\* whatever the ephemeris set, the time and the position make visible
AllocateChannelPass ==
    /\ \E visible \in SUBSET Sats :
          LET st == allocateChannel([chan |-> chan, allocatedSat |-> allocatedSat],
                                    visible)
          IN /\ chan' = st.chan
             /\ allocatedSat' = st.allocatedSat
             /\ vis' = visible
    /\ pre' = [chan |-> chan, allocatedSat |-> allocatedSat]
    /\ UNCHANGED <<hvars, timeVars, fnVars>>

NextSched == AllocateChannelPass

(***************************************************************************)
(* Reception time: incGpsTime() and the maintenance test of main().        *)
(* Seconds are kept in milliseconds: incGpsTime rounds to the millisecond, *)
(* and every start time is a whole second (the -t option floors the        *)
(* seconds, both RINEX readers read the TOC seconds as an integer).        *)
(***************************************************************************)

\* iterations of the synthesis loop that are followed
MaxIter == 620

SECONDS_IN_WEEK == 604800
MsPerSec == 1000
WeekMs == SECONDS_IN_WEEK * MsPerSec

\* the step of the reception time per iteration: 0.1 s, in ms
IterMs == 100

\* the week is not advanced when the seconds wrap (used to test what C11 is
\* sensitive to)
NormalizeGps_KeepWeek(g) == [week |-> g.week, sec |-> g.sec % WeekMs]

\* the while loops of incGpsTime
RECURSIVE NormalizeGps(_)
NormalizeGps(g) ==
    IF g.sec >= WeekMs THEN NormalizeGps([week |-> g.week + 1, sec |-> g.sec - WeekMs])
    ELSE IF g.sec < 0 THEN NormalizeGps([week |-> g.week - 1, sec |-> g.sec + WeekMs])
    ELSE g

\* incGpsTime(g0, dt), dt in ms
incGpsTime(g0, dt) == NormalizeGps([week |-> g0.week, sec |-> g0.sec + dt])

\* subGpsTime(g1, g0): g1 - g0, in ms
subGpsTime(g1, g0) == (g1.sec - g0.sec) + (g1.week - g0.week) * WeekMs

\* igrx = (int) (grx.sec * 10.0 + 0.5)
Igrx(g) == (g.sec + 50) \div 100

\* the maintenance period in iterations: 300 in the reference source, 100 in
\* the first release
MaintPeriod == 300
MaintPeriod_FirstRelease == 100

\* if (igrx % 100 == 0), the test of the first release (used to test what C10
\* is sensitive to)
MaintenanceDue_FirstRelease(g) == Igrx(g) % MaintPeriod_FirstRelease = 0

\* if (igrx % 300 == 0)
MaintenanceDue(g) == Igrx(g) % MaintPeriod = 0

\* start times g0 (week, whole seconds): the start of a week, off the 30 s grid,
\* and shortly before the week rolls over
StartWeeks == {1023, 2086}
StartSecs == {0, 1, 29, 30, 604755, 604799}

\* grx = incGpsTime(g0, 0.0); ...; grx = incGpsTime(grx, 0.1);
InitTime ==
    /\ \E w \in StartWeeks, s \in StartSecs :
          /\ gstart = [week |-> w, sec |-> s * MsPerSec]
          /\ grx = incGpsTime(incGpsTime(gstart, 0), IterMs)
    /\ iter = 0
    /\ lastGrx = [week |-> -1, sec |-> 0]
    /\ maintRan = FALSE
    /\ sinceMaint = -1
    /\ gap = -1

InitTimeIdle ==
    /\ gstart = [week |-> 0, sec |-> 0]
    /\ grx = [week |-> 0, sec |-> IterMs]
    /\ iter = 0
    /\ lastGrx = [week |-> -1, sec |-> 0]
    /\ maintRan = FALSE
    /\ sinceMaint = -1
    /\ gap = -1

\* the tail of one iteration of the synthesis loop: the maintenance test (and
\* body, when due), then grx = incGpsTime(grx, 0.1)
SynthIteration ==
    /\ iter < MaxIter
    /\ LET due == MaintenanceDue(grx)
           since == IF sinceMaint = -1 THEN -1 ELSE sinceMaint + 1
       IN /\ maintRan' = due
          /\ sinceMaint' = IF due THEN 0 ELSE since
          /\ gap' = IF due THEN since ELSE gap
    /\ lastGrx' = grx
    /\ grx' = incGpsTime(grx, IterMs)
    /\ iter' = iter + 1
    /\ UNCHANGED gstart
    /\ UNCHANGED <<hvars, schedVars, fnVars>>

NextTime == SynthIteration

(***************************************************************************)
(* Word parity: countBits() and computeChecksum().                         *)
(* An unsigned long is a natural number; the argument of computeChecksum,  *)
(* the one value that uses bits 31:30, is kept as hi = bits 31:30 and      *)
(* lo = bits 29:0.                                                         *)
(***************************************************************************)

\* payloads tried have at most this many bits set, or at most this many clear
MaxPayloadBits == 2

RECURSIVE BitAnd(_, _)
BitAnd(a, b) ==
    IF a = 0 \/ b = 0 THEN 0
    ELSE (a % 2) * (b % 2) + 2 * BitAnd(a \div 2, b \div 2)

RECURSIVE BitXor(_, _)
BitXor(a, b) ==
    IF a = 0 THEN b
    ELSE IF b = 0 THEN a
    ELSE ((a + b) % 2) + 2 * BitXor(a \div 2, b \div 2)

RECURSIVE BitOr(_, _)
BitOr(a, b) ==
    IF a = 0 THEN b
    ELSE IF b = 0 THEN a
    ELSE (IF a % 2 = 1 \/ b % 2 = 1 THEN 1 ELSE 0) + 2 * BitOr(a \div 2, b \div 2)

\* a >> n and a << n
Shr(a, n) == a \div (2 ^ n)
Shl(a, n) == a * (2 ^ n)

\* const int S[] and const unsigned long B[] of countBits
CountS == <<1, 2, 4, 8, 16>>
CountB == <<\H55555555, \H33333333, \H0F0F0F0F, \H00FF00FF, \H0000FFFF>>

\* c = ((c >> S[k]) & B[k]) + (c & B[k])
CountStep(c, k) == BitAnd(Shr(c, CountS[k]), CountB[k]) + BitAnd(c, CountB[k])

countBits(v) == CountStep(CountStep(CountStep(CountStep(CountStep(v, 1), 2), 3), 4), 5)

\* the masks of D25 and D26 exchanged (used to test what C13 is sensitive to)
bmask_D25D26Swapped ==
    <<\H1D8F9A40, \H3B1F3480, \H2EC7CD00, \H1763E680, \H2BB1F340, \H0B7A89C0>>

\* unsigned long bmask[6]
bmask ==
    <<\H3B1F3480, \H1D8F9A40, \H2EC7CD00, \H1763E680, \H2BB1F340, \H0B7A89C0>>

DataMask == \H3FFFFFC0
WordMask == \H3FFFFFFF

\* every parity bit takes D29* (used to test what C12 is sensitive to)
PrevBit_AlwaysD29(k, D29, D30) == D29

\* the previous-word bit added into parity bit k (1: D25 .. 6: D30):
\* D29, D30, D29, D30, D30, D29 in the six "D |=" lines
PrevBit(k, D29, D30) == IF k \in {1, 3, 6} THEN D29 ELSE D30

\* ((Dprev + countBits(bmask[k] & d)) % 2)
ParityBit(k, D29, D30, d) == (PrevBit(k, D29, D30) + countBits(BitAnd(bmask[k], d))) % 2

\* the "if (nib)" block: bits 6 and 7 of d are solved so that D29 and D30 are zero
SolveNib(D29, D30, d) ==
    LET d1 == IF (D30 + countBits(BitAnd(bmask[5], d))) % 2 = 1
              THEN BitXor(d, Shl(1, 6)) ELSE d
    IN IF (D29 + countBits(BitAnd(bmask[6], d1))) % 2 = 1
       THEN BitXor(d1, Shl(1, 7)) ELSE d1

computeChecksum(source, nib) ==
    LET d0 == BitAnd(source.lo, DataMask)
        D29 == Shr(source.hi, 1) % 2
        D30 == source.hi % 2
        d == IF nib THEN SolveNib(D29, D30, d0) ELSE d0
        Dd == IF D30 = 1 THEN BitXor(d, DataMask) ELSE d
        D == BitOr(Dd,
                   Shl(ParityBit(1, D29, D30, d), 5) + Shl(ParityBit(2, D29, D30, d), 4)
                   + Shl(ParityBit(3, D29, D30, d), 3) + Shl(ParityBit(4, D29, D30, d), 2)
                   + Shl(ParityBit(5, D29, D30, d), 1) + ParityBit(6, D29, D30, d))
    IN BitAnd(D, WordMask)

\* a source word with D29*, D30* in bits 31:30 and the 24 data bits in bits 29:6
Pack(D29, D30, payload) == [hi |-> 2 * D29 + D30, lo |-> Shl(payload, 6)]

\* the payloads with at most n of the 24 bits set
RECURSIVE LightPayloads(_)
LightPayloads(n) ==
    IF n = 0 THEN {0}
    ELSE LET less == LightPayloads(n - 1)
         IN less \cup {p + 2 ^ i : <<p, i>> \in
                          {q \in less \X (0 .. 23) : Shr(q[1], q[2]) % 2 = 0}}

AllOnes24 == \HFFFFFF

\* the TLM word with the two reserved bits set, as data bits
TlmPayload == \H8B0003

Payloads ==
    LightPayloads(MaxPayloadBits)
        \cup {AllOnes24 - p : p \in LightPayloads(MaxPayloadBits)}
        \cup {TlmPayload}

InitParity ==
    /\ \E p \in Payloads, a \in {0, 1}, b \in {0, 1} : ckSource = Pack(a, b, p)
    /\ ckNib \in BOOLEAN
    /\ ckWord = -1
    /\ ckDone = FALSE

InitParityIdle ==
    /\ ckSource = Pack(0, 0, 0)
    /\ ckNib = FALSE
    /\ ckWord = -1
    /\ ckDone = FALSE

\* one call computeChecksum(source, nib)
ComputeChecksumCall ==
    /\ ~ckDone
    /\ ckWord' = computeChecksum(ckSource, ckNib)
    /\ ckDone' = TRUE
    /\ UNCHANGED <<ckSource, ckNib>>
    /\ UNCHANGED <<coreVars, navVars, rinexVars, startVars>>

NextParity == ComputeChecksumCall

(***************************************************************************)
(* The navigation message of one channel: generateNavMsg().                *)
(***************************************************************************)

\* calls of generateNavMsg followed for the channel
MaxNavCalls == 5

N_SBF == 5
N_DWRD_SBF == 10
N_DWRD == (N_SBF + 1) * N_DWRD_SBF

FrameSec == 30
SubframeSec == 6
WeekMod == 1024
TowMask == \H1FFFF
WnMask == \H3FF

SbfIdx == 0 .. (N_SBF - 1)
WrdIdx == 0 .. (N_DWRD_SBF - 1)

\* the source words eph2sbf leaves in chan->sbf: word 1 is the TLM word, word 2
\* holds the subframe ID, word 3 of subframe 1 has its week bits zero; the other
\* data bits depend on the ephemeris (variant v)
SbfFill(v, isbf, iwrd) == (v * (37 * isbf + 11 * iwrd + 1) * 4099) % (2 ^ 24)

SbfOf(v) ==
    [isbf \in SbfIdx |-> [iwrd \in WrdIdx |->
        IF iwrd = 0 THEN Shl(\H8B0000, 6)
        ELSE IF iwrd = 1 THEN Shl(isbf + 1, 8)
        ELSE IF isbf = 0 /\ iwrd = 2 THEN Shl(SbfFill(v, isbf, iwrd) % (2 ^ 14), 6)
        ELSE Shl(SbfFill(v, isbf, iwrd), 6)]]

SbfVariants == {0, 1}

\* nib = ((iwrd == 1) || (iwrd == 9)) ? 1 : 0
NibWord(iwrd) == iwrd = 1 \/ iwrd = 9

\* sbfwrd of word iwrd of subframe isbf, before the previous word's bits are added
\* (withWn: the call is in the loop over the new subframes)
SourceWord(sbf, isbf, iwrd, wn, tow, withWn) ==
    LET w0 == sbf[isbf][iwrd]
        w1 == IF withWn /\ isbf = 0 /\ iwrd = 2
              THEN BitOr(w0, Shl(BitAnd(wn, WnMask), 20)) ELSE w0
    IN IF iwrd = 1 THEN BitOr(w1, Shl(BitAnd(tow, TowMask), 13)) ELSE w1

\* one pass of a word loop: the word made from source word src after the words
\* in done (prevwrd when done is empty)
NextWord(done, prevwrd, src, iwrd) ==
    LET prev == IF Len(done) = 0 THEN prevwrd ELSE done[Len(done)]
    IN Append(done, computeChecksum([hi |-> prev % 4, lo |-> src], NibWord(iwrd)))

\* the first n words of subframe isbf, computed after prevwrd
RECURSIVE SubframeWords(_, _, _, _, _, _, _)
SubframeWords(sbf, isbf, wn, tow, withWn, prevwrd, n) ==
    IF n = 0 THEN <<>>
    ELSE NextWord(SubframeWords(sbf, isbf, wn, tow, withWn, prevwrd, n - 1), prevwrd,
                  SourceWord(sbf, isbf, n - 1, wn, tow, withWn), n - 1)

\* the ring after the loop over the new subframes has handled subframes 0 .. n-1;
\* head is the ring's first subframe
RECURSIVE NewSubframes(_, _, _, _, _)
NewSubframes(head, sbf, wn, tow, n) ==
    IF n = 0 THEN head
    ELSE LET ring == NewSubframes(head, sbf, wn, tow, n - 1)
         IN ring \o SubframeWords(sbf, n - 1, wn, tow + n, TRUE, ring[Len(ring)],
                                  N_DWRD_SBF)

\* g0.sec = (double)(((unsigned long)(g.sec+0.5))/30UL)*30.0, in seconds
FrameStart(g) == (((g.sec + 500) \div MsPerSec) \div FrameSec) * FrameSec

\* generateNavMsg(g, chan, init): the new chan->g0 and chan->dwrd (as a sequence:
\* dwrd[k] of the source is element k+1)
generateNavMsg(g, sbf, old, init) ==
    LET g0 == [week |-> g.week, sec |-> FrameStart(g)]
        wn == g0.week % WeekMod
        tow == g0.sec \div SubframeSec
        head == IF init
                THEN SubframeWords(sbf, 4, wn, tow, FALSE, 0, N_DWRD_SBF)
                ELSE SubSeq(old, N_DWRD_SBF * N_SBF + 1, N_DWRD_SBF * N_SBF + N_DWRD_SBF)
    IN [g0 |-> g0, dwrd |-> NewSubframes(head, sbf, wn, tow, N_SBF)]

\* start times of the channel (whole seconds): on and off the frame grid, and in
\* the last minute of the week
NavStartSecs == {0, 10, 45, 604745, 604775}

InitNav ==
    /\ \E w \in StartWeeks, t \in NavStartSecs : navG = [week |-> w, sec |-> t * MsPerSec]
    /\ \E v \in SbfVariants : navSbf = SbfOf(v)
    /\ navG0 = [week |-> 0, sec |-> 0]
    /\ dwrd = [k \in 1 .. N_DWRD |-> 0]
    /\ navCalls = 0

InitNavIdle ==
    /\ navG = [week |-> 0, sec |-> 0]
    /\ navSbf = SbfOf(0)
    /\ navG0 = [week |-> 0, sec |-> 0]
    /\ dwrd = [k \in 1 .. N_DWRD |-> 0]
    /\ navCalls = 0

\* allocateChannel: generateNavMsg(grx, &chan[i], 1) for a newly allocated channel
AllocNavMsg ==
    /\ navCalls = 0
    /\ LET r == generateNavMsg(navG, navSbf, dwrd, TRUE)
       IN navG0' = r.g0 /\ dwrd' = r.dwrd
    /\ navCalls' = 1
    /\ UNCHANGED <<navG, navSbf>>
    /\ UNCHANGED <<coreVars, parVars, rinexVars, startVars>>

\* the maintenance of main(): at the next reception time on the 30 s grid,
\* generateNavMsg(grx, &chan[i], 0)
MaintNavMsg ==
    /\ navCalls >= 1 /\ navCalls < MaxNavCalls
    /\ LET g == incGpsTime(navG, FrameSec * MsPerSec - (navG.sec % (FrameSec * MsPerSec)))
           r == generateNavMsg(g, navSbf, dwrd, FALSE)
       IN navG' = g /\ navG0' = r.g0 /\ dwrd' = r.dwrd
    /\ navCalls' = navCalls + 1
    /\ UNCHANGED navSbf
    /\ UNCHANGED <<coreVars, parVars, rinexVars, startVars>>

NextNav == AllocNavMsg \/ MaintNavMsg

(***************************************************************************)
(* The ephemeris readers readRinex2() and readRinex3().  The two differ in *)
(* the header labels, the column positions and the version test; readRinex3*)
(* also skips the records of other systems.  The input is met line by line *)
(* in the header and block by block (8 lines) in the records.               *)
(***************************************************************************)

\* sets of the ephemeris table (13 in the source)
EPHEM_ARRAY_SIZE == 3
\* ephemeris blocks in the input
MaxRxBlocks == EPHEM_ARRAY_SIZE + 1

SECONDS_IN_HOUR == 3600
TotUnit == 4096
AllFlags == 15
NoRet == -99

\* satellites in the input (PRN 1 and 2)
RxSats == {0, 1}
RxSets == 0 .. (EPHEM_ARRAY_SIZE - 1)

\* lines of a block whose fields are stored (the 8th line is read and dropped)
FieldLines == 1 .. 7
BlockLines == 8

\* values of tot in the delta-UTC line
Tots == {0, 100, 503808}

\* the TOC of a block, relative to the reader's g0
TocSteps == {0, SECONDS_IN_HOUR, 2 * SECONDS_IN_HOUR}

EmptyRecord == [vflg |-> FALSE, src |-> [l \in FieldLines |-> 0]]
EmptyTable == [i \in RxSets |-> [sv \in RxSats |-> EmptyRecord]]

\* the state at the start of a reader's call; ionoutc is an automatic variable of
\* main that nothing has assigned, eph is shown as the "Clear valid flag" loop
\* leaves it
InitRinex ==
    /\ rxPc = "open"
    /\ rxV3 \in BOOLEAN
    /\ rxFlags = 0
    /\ ionoTot = 0
    /\ ionoVflg = "unset"
    /\ rxSeen = {}
    /\ rxGoodDutc = FALSE
    /\ rxRet = NoRet
    /\ rxIeph = 0
    /\ rxG0 = -1
    /\ rxEph = EmptyTable
    /\ rxBlocks = 0
    /\ rxTouched = {}

\* the state when the header has been read: flags == 0xF or not
InitRinexRecords ==
    /\ rxPc = "records"
    /\ rxV3 \in BOOLEAN
    /\ \/ rxFlags = AllFlags /\ ionoVflg = "true" /\ rxGoodDutc = TRUE
          /\ rxSeen = {"alpha", "beta", "dutc", "leap"}
       \/ rxFlags = 0 /\ ionoVflg = "false" /\ rxGoodDutc = FALSE /\ rxSeen = {}
    /\ ionoTot = 0
    /\ rxRet = NoRet
    /\ rxIeph = 0
    /\ rxG0 = -1
    /\ rxEph = EmptyTable
    /\ rxBlocks = 0
    /\ rxTouched = {}

InitRinexIdle ==
    /\ rxPc = "returned"
    /\ rxV3 = FALSE
    /\ rxFlags = 0
    /\ ionoTot = 0
    /\ ionoVflg = "false"
    /\ rxSeen = {}
    /\ rxGoodDutc = FALSE
    /\ rxRet = 0
    /\ rxIeph = 0
    /\ rxG0 = -1
    /\ rxEph = EmptyTable
    /\ rxBlocks = 0
    /\ rxTouched = {}

recVars == <<rxIeph, rxG0, rxEph, rxBlocks, rxTouched>>
hdrVars == <<rxFlags, ionoTot, ionoVflg, rxSeen, rxGoodDutc>>

\* gzopen: on failure return (-1), before the valid flags are cleared
RxOpen ==
    /\ rxPc = "open"
    /\ \/ rxPc' = "returned" /\ rxRet' = -1
       \/ rxPc' = "header" /\ rxRet' = rxRet
    /\ UNCHANGED <<rxV3, hdrVars, recVars>>
    /\ UNCHANGED <<coreVars, parVars, navVars, startVars>>

\* every delta-UTC line sets its flag (used to test what C18 is sensitive to)
TotAccepted_Always(tot) == TRUE

\* if (ionoutc->tot % 4096 == 0)
TotAccepted(tot) == tot % TotUnit = 0

\* ionoutc->vflg = false; if (flags == 0xF) ionoutc->vflg = true;
HeaderVflg(flags) == IF flags = AllFlags THEN "true" ELSE "false"

\* "RINEX VERSION / TYPE": the version test (ver > 3.0 in readRinex2, ver < 3.0
\* in readRinex3) and the system letter test
RxVersionLine ==
    /\ rxPc = "header"
    /\ \E verOk \in BOOLEAN, letterOk \in BOOLEAN :
          IF ~verOk THEN rxPc' = "returned" /\ rxRet' = -2
          ELSE IF ~letterOk THEN rxPc' = "returned" /\ rxRet' = -3
          ELSE rxPc' = rxPc /\ rxRet' = rxRet
    /\ UNCHANGED <<rxV3, hdrVars, recVars>>
    /\ UNCHANGED <<coreVars, parVars, navVars, startVars>>

\* "ION ALPHA" / "IONOSPHERIC CORR" GPSA
RxIonAlpha ==
    /\ rxPc = "header"
    /\ rxFlags' = BitOr(rxFlags, 1)
    /\ rxSeen' = rxSeen \cup {"alpha"}
    /\ UNCHANGED <<rxPc, rxV3, ionoTot, ionoVflg, rxGoodDutc, rxRet, recVars>>
    /\ UNCHANGED <<coreVars, parVars, navVars, startVars>>

\* "ION BETA" / "IONOSPHERIC CORR" GPSB
RxIonBeta ==
    /\ rxPc = "header"
    /\ rxFlags' = BitOr(rxFlags, Shl(1, 1))
    /\ rxSeen' = rxSeen \cup {"beta"}
    /\ UNCHANGED <<rxPc, rxV3, ionoTot, ionoVflg, rxGoodDutc, rxRet, recVars>>
    /\ UNCHANGED <<coreVars, parVars, navVars, startVars>>

\* "DELTA-UTC" / "TIME SYSTEM CORR" GPUT
RxDeltaUtc ==
    /\ rxPc = "header"
    /\ \E tot \in Tots :
          /\ ionoTot' = tot
          /\ rxFlags' = IF TotAccepted(tot) THEN BitOr(rxFlags, Shl(1, 2)) ELSE rxFlags
          /\ rxGoodDutc' = (rxGoodDutc \/ tot % TotUnit = 0)
    /\ rxSeen' = rxSeen \cup {"dutc"}
    /\ UNCHANGED <<rxPc, rxV3, ionoVflg, rxRet, recVars>>
    /\ UNCHANGED <<coreVars, parVars, navVars, startVars>>

\* "LEAP SECONDS"
RxLeapSeconds ==
    /\ rxPc = "header"
    /\ rxFlags' = BitOr(rxFlags, Shl(1, 3))
    /\ rxSeen' = rxSeen \cup {"leap"}
    /\ UNCHANGED <<rxPc, rxV3, ionoTot, ionoVflg, rxGoodDutc, rxRet, recVars>>
    /\ UNCHANGED <<coreVars, parVars, navVars, startVars>>

\* "END OF HEADER", or the end of the input inside the header
RxEndOfHeader ==
    /\ rxPc = "header"
    /\ ionoVflg' = HeaderVflg(rxFlags)
    /\ rxPc' = "records"
    /\ UNCHANGED <<rxV3, rxFlags, ionoTot, rxSeen, rxGoodDutc, rxRet, recVars>>
    /\ UNCHANGED <<coreVars, parVars, navVars, startVars>>

\* ieph of the return statement: if (g0.week >= 0) ieph += 1
ReturnedSets(ieph, g0) == IF g0 >= 0 THEN ieph + 1 ELSE ieph

\* the end of the input at the first line of a block
RxEndOfInput ==
    /\ rxPc = "records"
    /\ rxPc' = "returned"
    /\ rxRet' = ReturnedSets(rxIeph, rxG0)
    /\ UNCHANGED <<rxV3, hdrVars, recVars>>
    /\ UNCHANGED <<coreVars, parVars, navVars, startVars>>

\* the record after the field lines 1 .. n of block b have been stored
StoreLines(rec, b, n) ==
    [rec EXCEPT !.src = [l \in FieldLines |-> IF l <= n THEN b ELSE rec.src[l]]]

\* one pass of the record loop over a block of satellite sv with the TOC
\* g0 + step, of which the input holds the first `lines` lines
RxBlock ==
    /\ rxPc = "records"
    /\ rxBlocks < MaxRxBlocks
    /\ \E sv \in RxSats, step \in TocSteps, lines \in 1 .. BlockLines :
          LET g == IF rxG0 = -1 THEN 0 ELSE rxG0 + step
              first == IF rxG0 = -1 THEN g ELSE rxG0
              newSet == g - first > SECONDS_IN_HOUR
              ieph == IF newSet THEN rxIeph + 1 ELSE rxIeph
              g0 == IF newSet THEN g ELSE first
              b == rxBlocks + 1
          IN /\ rxBlocks' = b
             /\ rxG0' = g0
             /\ rxIeph' = ieph
             /\ IF ieph >= EPHEM_ARRAY_SIZE
                THEN \* break before anything is stored
                     /\ rxEph' = rxEph
                     /\ rxTouched' = rxTouched
                     /\ rxPc' = "returned"
                     /\ rxRet' = ReturnedSets(ieph, g0)
                ELSE /\ rxTouched' = rxTouched \cup {ieph}
                     /\ IF lines < BlockLines
                        THEN \* the input ends inside the block: break
                             /\ rxEph' = [rxEph EXCEPT ![ieph][sv] =
                                             StoreLines(@, b, lines)]
                             /\ rxPc' = "returned"
                             /\ rxRet' = ReturnedSets(ieph, g0)
                        ELSE /\ rxEph' = [rxEph EXCEPT ![ieph][sv] =
                                             [StoreLines(@, b, 7) EXCEPT !.vflg = TRUE]]
                             /\ rxPc' = rxPc
                             /\ rxRet' = rxRet
    /\ UNCHANGED <<rxV3, hdrVars>>
    /\ UNCHANGED <<coreVars, parVars, navVars, startVars>>

NextHeader ==
    \/ RxOpen \/ RxVersionLine \/ RxIonAlpha \/ RxIonBeta \/ RxDeltaUtc
    \/ RxLeapSeconds \/ RxEndOfHeader \/ RxEndOfInput

NextRecords == RxBlock \/ RxEndOfInput

(***************************************************************************)
(* The start-up of main(): from the reader's return to the synthesis loop, *)
(* and the exit path.  Times are week and milliseconds; the weeks are small *)
(* numbers (the tables lie in week StWeek), week 0 being what a zeroed      *)
(* gpstime_t holds.                                                        *)
(***************************************************************************)

\* sets in the tables the reader has produced
MaxStSets == 2

StWeek == 2
NoExit == -1
SetSpacingSec == 7200
AnchorAlignSec == 7200
TocEarlySec == 16

StSets == 0 .. (MaxStSets - 1)
ZeroTime == [week |-> 0, sec |-> 0]
NoTime == [week |-> -1, sec |-> 0]
InvalidRecord == [vflg |-> FALSE, toc |-> ZeroTime, toe |-> ZeroTime]

\* the first TOC of set 0: early in the week, and two hours before its end
TableBases ==
    {[week |-> StWeek, sec |-> SetSpacingSec * MsPerSec],
     [week |-> StWeek, sec |-> (SECONDS_IN_WEEK - SetSpacingSec) * MsPerSec]}

\* a record of set i of a table starting at base: not valid, or valid with its
\* TOE on the set's 2-hour mark and its TOC there or 16 s before it
RecordsOf(base, i) ==
    LET mark == incGpsTime(base, i * SetSpacingSec * MsPerSec)
    IN {InvalidRecord,
        [vflg |-> TRUE, toc |-> mark, toe |-> mark],
        [vflg |-> TRUE, toc |-> incGpsTime(mark, -(TocEarlySec * MsPerSec)), toe |-> mark]}

\* the tables with n sets a reader can leave: every set but the last holds a
\* valid record (the last may hold only a block cut short); the other sets are
\* as the "Clear valid flag" loop left them
TablesOf(base, n) ==
    {t \in [StSets -> [RxSats -> UNION {RecordsOf(base, i) : i \in StSets}]] :
        /\ \A i \in StSets : \A sv \in RxSats :
              t[i][sv] \in (IF i < n THEN RecordsOf(base, i) ELSE {InvalidRecord})
        /\ \A i \in StSets : (i < n - 1) => \E sv \in RxSats : t[i][sv].vflg}

\* what an automatic gpstime_t never assigned, or read from outside eph, may hold
GarbageTimes == {ZeroTime, [week |-> StWeek + 1, sec |-> 0]}

\* the -t / -T now start time against the table's base, in seconds
AnchorOffsets == {-7200, -10, 0, 3590, 3600, 7190, 7200, 7210, 14400}

\* error returns of the readers, and the empty input
ReaderFailures == {-3, -2, -1, 0}

InitStart ==
    /\ stPc = "load"
    /\ \E base \in TableBases :
          /\ \/ \E n \in 1 .. MaxStSets : neph = n /\ eph \in TablesOf(base, n)
             \/ neph \in ReaderFailures /\ eph \in TablesOf(base, 0)
          /\ \/ stG0 = NoTime
             \/ \E off \in AnchorOffsets : stG0 = incGpsTime(base, off * MsPerSec)
    /\ ephRead = eph
    /\ stAnchor = stG0
    /\ timeoverwrite \in BOOLEAN
    /\ gmin = ZeroTime
    /\ gmax = ZeroTime
    /\ stIeph = -1
    /\ stWnt = 0
    /\ stTot = 0
    /\ stErr = "none"
    /\ exitCode = NoExit
    /\ threadStarted = FALSE
    /\ framesMade = FALSE

InitStartIdle ==
    /\ stPc = "exited"
    /\ neph = 0
    /\ eph = [i \in StSets |-> [sv \in RxSats |-> InvalidRecord]]
    /\ ephRead = eph
    /\ stG0 = NoTime
    /\ stAnchor = NoTime
    /\ timeoverwrite = FALSE
    /\ gmin = ZeroTime
    /\ gmax = ZeroTime
    /\ stIeph = -1
    /\ stWnt = 0
    /\ stTot = 0
    /\ stErr = "noeph"
    /\ exitCode = 1
    /\ threadStarted = FALSE
    /\ framesMade = FALSE

\* exit(1) after an error message
Fatal(msg) ==
    /\ stPc' = "exited"
    /\ stErr' = msg
    /\ exitCode' = 1

\* if (neph == 0) { "ERROR: No ephemeris available."; exit(1); }
StLoad ==
    /\ stPc = "load"
    /\ IF neph = 0 THEN Fatal("noeph")
       ELSE stPc' = "window" /\ UNCHANGED <<stErr, exitCode>>
    /\ UNCHANGED <<neph, eph, ephRead, stG0, stAnchor, timeoverwrite, gmin, gmax, stIeph, stWnt, stTot,
                   threadStarted, framesMade>>
    /\ UNCHANGED <<coreVars, parVars, navVars, rinexVars>>

\* the satellites of set i with the valid flag set
ValidIn(table, i) == {sv \in RxSats : table[i][sv].vflg}

\* for (sv = 0; ...) if (eph[i][sv].vflg == true) { ...toc; break; }: the TOC of
\* the lowest valid satellite of set i
FirstValidToc(table, i) ==
    table[i][CHOOSE sv \in ValidIn(table, i) : \A s \in ValidIn(table, i) : sv <= s].toc

\* gmin is taken from set 0 and not assigned when set 0 has no valid record;
\* gmax is zeroed and then taken from set neph-1, which lies outside eph when
\* neph is negative
StWindow ==
    /\ stPc = "window"
    /\ IF ValidIn(eph, 0) # {} THEN gmin' = FirstValidToc(eph, 0)
       ELSE gmin' \in GarbageTimes
    /\ IF neph >= 1
       THEN gmax' = IF ValidIn(eph, neph - 1) # {} THEN FirstValidToc(eph, neph - 1)
                    ELSE ZeroTime
       ELSE gmax' \in GarbageTimes
    /\ stPc' = "anchor"
    /\ UNCHANGED <<neph, eph, ephRead, stG0, stAnchor, timeoverwrite, stIeph, stWnt, stTot, stErr, exitCode,
                   threadStarted, framesMade>>
    /\ UNCHANGED <<coreVars, parVars, navVars, rinexVars>>

\* gtmp.sec = (double)(((int)(g0.sec))/7200)*7200.0
AlignAnchor(g) ==
    [week |-> g.week,
     sec |-> (((g.sec \div MsPerSec) \div AnchorAlignSec) * AnchorAlignSec) * MsPerSec]

\* eph[i][sv].toc = incGpsTime(eph[i][sv].toc, dsec); the same for toe
ShiftRecord(rec, dsec) ==
    [rec EXCEPT !.toc = incGpsTime(rec.toc, dsec), !.toe = incGpsTime(rec.toe, dsec)]

\* "Overwrite the TOC and TOE to the scenario start time"
ShiftTable(table, n, dsec) ==
    [i \in StSets |-> [sv \in RxSats |->
        IF i < n /\ table[i][sv].vflg THEN ShiftRecord(table[i][sv], dsec)
        ELSE table[i][sv]]]

\* if (subGpsTime(g0, gmin) < 0.0 || subGpsTime(gmax, g0) < 0.0)
AnchorRejected(g, lo, hi) == subGpsTime(g, lo) < 0 \/ subGpsTime(hi, g) < 0

\* if (g0.week >= 0) { overwrite, or check against gmin, gmax } else g0 = gmin
StAnchor ==
    /\ stPc = "anchor"
    /\ IF stG0.week >= 0
       THEN IF timeoverwrite
            THEN LET gtmp == AlignAnchor(stG0)
                     dsec == subGpsTime(gtmp, gmin)
                 IN /\ stWnt' = gtmp.week
                    /\ stTot' = gtmp.sec \div MsPerSec
                    /\ eph' = ShiftTable(eph, neph, dsec)
                    /\ stPc' = "select"
                    /\ UNCHANGED <<stG0, stErr, exitCode>>
            ELSE /\ IF AnchorRejected(stG0, gmin, gmax) THEN Fatal("invalid_time")
                    ELSE stPc' = "select" /\ UNCHANGED <<stErr, exitCode>>
                 /\ UNCHANGED <<stG0, eph, stWnt, stTot>>
       ELSE /\ stG0' = gmin
            /\ stPc' = "select"
            /\ UNCHANGED <<eph, stWnt, stTot, stErr, exitCode>>
    /\ UNCHANGED <<neph, ephRead, stAnchor, timeoverwrite, gmin, gmax, stIeph, threadStarted,
                   framesMade>>
    /\ UNCHANGED <<coreVars, parVars, navVars, rinexVars>>

\* the test made on the lowest valid satellite of the set only
SetMatches_FirstValid(table, i, g) ==
    /\ ValidIn(table, i) # {}
    /\ LET dt == subGpsTime(g, FirstValidToc(table, i))
       IN dt >= -(SECONDS_IN_HOUR * MsPerSec) /\ dt < SECONDS_IN_HOUR * MsPerSec

\* dt >= -SECONDS_IN_HOUR && dt < SECONDS_IN_HOUR for a valid record of set i
SetMatches(table, i, g) ==
    \E sv \in ValidIn(table, i) :
        LET dt == subGpsTime(g, table[i][sv].toc)
        IN dt >= -(SECONDS_IN_HOUR * MsPerSec) /\ dt < SECONDS_IN_HOUR * MsPerSec

\* "Select the current set of ephemerides": the first set i < neph that matches
SelectSet(table, n, g) ==
    LET hits == {i \in DOMAIN table : i < n /\ SetMatches(table, i, g)}
    IN IF hits = {} THEN -1 ELSE CHOOSE i \in hits : \A j \in hits : i <= j

StSelect ==
    /\ stPc = "select"
    /\ stIeph' = SelectSet(eph, neph, stG0)
    /\ IF stIeph' = -1 THEN Fatal("no_set")
       ELSE stPc' = "alloc" /\ UNCHANGED <<stErr, exitCode>>
    /\ UNCHANGED <<neph, eph, ephRead, stG0, stAnchor, timeoverwrite, gmin, gmax, stWnt, stTot,
                   threadStarted, framesMade>>
    /\ UNCHANGED <<coreVars, parVars, navVars, rinexVars>>

\* iq_buff = calloc(NUM_SAMPLES, 4); on failure goto exit_main_thread
StAlloc ==
    /\ stPc = "alloc"
    /\ \/ stPc' = "create" /\ stErr' = stErr
       \/ stPc' = "exit_main" /\ stErr' = "alloc"
    /\ UNCHANGED <<neph, eph, ephRead, stG0, stAnchor, timeoverwrite, gmin, gmax, stIeph, stWnt, stTot,
                   exitCode, threadStarted, framesMade>>
    /\ UNCHANGED <<coreVars, parVars, navVars, rinexVars>>

\* pthread_create(&pluto_thread, NULL, pluto_tx_thread_ep, NULL)
StCreate ==
    /\ stPc = "create"
    /\ threadStarted' = TRUE
    /\ stPc' = "stream"
    /\ UNCHANGED <<neph, eph, ephRead, stG0, stAnchor, timeoverwrite, gmin, gmax, stIeph, stWnt, stTot,
                   stErr, exitCode, framesMade>>
    /\ UNCHANGED <<coreVars, parVars, navVars, rinexVars>>

\* the synthesis loop, until plutotx.exit is seen
StStream ==
    /\ stPc = "stream"
    /\ framesMade' \in BOOLEAN
    /\ stPc' = "exit_main"
    /\ UNCHANGED <<neph, eph, ephRead, stG0, stAnchor, timeoverwrite, gmin, gmax, stIeph, stWnt, stTot,
                   stErr, exitCode, threadStarted>>
    /\ UNCHANGED <<coreVars, parVars, navVars, rinexVars>>

\* pthread_join(pluto_thread, NULL) when pthread_create never ran: pluto_thread
\* is a zeroed static, joining it is undefined: the call fails and main returns
\* 0, or the process is killed by SIGSEGV (status 139)
BadJoinOutcomes == {0, 139}

\* exit_main_thread: unlock, plutotx.exit = true, join, destroy, free, return (0)
StExitMain ==
    /\ stPc = "exit_main"
    /\ exitCode' \in (IF threadStarted THEN {0} ELSE BadJoinOutcomes)
    /\ stPc' = "exited"
    /\ UNCHANGED <<neph, eph, ephRead, stG0, stAnchor, timeoverwrite, gmin, gmax, stIeph, stWnt, stTot,
                   stErr, threadStarted, framesMade>>
    /\ UNCHANGED <<coreVars, parVars, navVars, rinexVars>>

NextStart ==
    \/ StLoad \/ StWindow \/ StAnchor \/ StSelect \/ StAlloc \/ StCreate \/ StStream
    \/ StExitMain

(***************************************************************************)
(* The ephemeris refresh of the maintenance pass of main(): every 30 s the  *)
(* loop looks at the set after the current one, moves to it when the TOC of *)
(* its first valid satellite is less than an hour ahead, rebuilds the       *)
(* subframes of the allocated channels and runs the scheduler.  eph has     *)
(* EPHEM_ARRAY_SIZE sets; times are in ms.                                  *)
(***************************************************************************)

\* maintenance passes in a run
MaxPasses == 3

\* the start times, in seconds before the hour mark between two sets
StartLeadSec == 60

\* what a set of a broadcast file holds: every satellite on the set's 2-hour
\* mark, one of the two 16 s before it, or only the second satellite
SetKinds == {"both", "early0", "early1", "only1"}

MtBase == [week |-> StWeek, sec |-> SetSpacingSec * MsPerSec]

MtRecord(toc, mark) == [vflg |-> TRUE, toc |-> toc, toe |-> mark]

MtSet(kind, i) ==
    LET mark == incGpsTime(MtBase, i * SetSpacingSec * MsPerSec)
        early == incGpsTime(mark, -(TocEarlySec * MsPerSec))
    IN [sv \in RxSats |->
          IF kind = "none" \/ (kind = "only1" /\ sv = 0) THEN InvalidRecord
          ELSE IF (kind = "early0" /\ sv = 0) \/ (kind = "early1" /\ sv = 1)
               THEN MtRecord(early, mark)
               ELSE MtRecord(mark, mark)]

\* the tables of n sets: the sets the reader did not reach are as the "Clear
\* valid flag" loop left them
MtTables(n) ==
    {[i \in RxSets |-> MtSet(IF i < n THEN k[i] ELSE "none", i)] : k \in [RxSets -> SetKinds]}

\* start times main accepts for a table: on a set's mark, or a minute before
\* the hour mark that follows it
MtStartTimes(n) ==
    {incGpsTime(MtBase, (i * SetSpacingSec + off) * MsPerSec) :
        i \in 0 .. (n - 1), off \in {0, SECONDS_IN_HOUR - StartLeadSec}}

\* what lies behind the last set of eph, read as a record: no valid flag, or a
\* valid flag and a TOC less than an hour ahead of grx, or one further ahead
BeyondTable == {"invalid", "valid_near", "valid_far"}

IdleChannels == [chan |-> [i \in Chans |-> IdleChannel],
                 allocatedSat |-> [sv \in Sats |-> -1]]

\* the state when the synthesis loop is entered: the start time has passed the
\* gmin/gmax test, a set has been selected, the visible satellites of that set
\* have their channels, and the first pass is due 30 s after the start
InitMaint ==
    /\ \E n \in 1 .. EPHEM_ARRAY_SIZE : \E table \in MtTables(n) : \E g \in MtStartTimes(n) :
          /\ ~AnchorRejected(g, FirstValidToc(table, 0), FirstValidToc(table, n - 1))
          /\ SelectSet(table, n, g) >= 0
          /\ mtNeph = n
          /\ mtEph = table
          /\ mtIeph = SelectSet(table, n, g)
          /\ mtGrx = incGpsTime(g, MaintPeriod * IterMs)
          /\ \E visible \in SUBSET ValidIn(table, SelectSet(table, n, g)) :
                LET st == allocateChannel(IdleChannels, visible)
                IN /\ mtChan = st.chan
                   /\ mtAlloc = st.allocatedSat
                   /\ mtSbfSet = [i \in Chans |->
                                    IF st.chan[i].prn # 0 THEN SelectSet(table, n, g) ELSE -1]
    /\ mtPasses = 0
    /\ mtPrev = [ieph |-> mtIeph, grx |-> mtGrx, chan |-> mtChan]
    /\ mtRead = {mtIeph}
    /\ mtSchedSbf = mtSbfSet

InitMaintIdle ==
    /\ mtNeph = 1
    /\ mtEph = [i \in RxSets |-> MtSet(IF i = 0 THEN "both" ELSE "none", i)]
    /\ mtIeph = 0
    /\ mtGrx = MtBase
    /\ mtPasses = MaxPasses
    /\ mtChan = IdleChannels.chan
    /\ mtAlloc = IdleChannels.allocatedSat
    /\ mtSbfSet = [i \in Chans |-> -1]
    /\ mtPrev = [ieph |-> 0, grx |-> MtBase, chan |-> IdleChannels.chan]
    /\ mtRead = {0}
    /\ mtSchedSbf = [i \in Chans |-> -1]

\* for (sv ...) if (eph[ieph + 1][sv].vflg == true) {
\*     dt = subGpsTime(eph[ieph + 1][sv].toc, grx);
\*     if (dt < SECONDS_IN_HOUR) ...; break; }
NextSetDue(table, next, g) ==
    /\ ValidIn(table, next) # {}
    /\ subGpsTime(FirstValidToc(table, next), g) < SECONDS_IN_HOUR * MsPerSec

\* if (chan[i].prn != 0) eph2sbf(eph[ieph][chan[i].prn - 1], ionoutc, chan[i].sbf)
RebuildSubframes(ch, sbfSet, set) ==
    [i \in Chans |-> IF ch[i].prn # 0 THEN set ELSE sbfSet[i]]

\* the "Refresh ephemeris and subframes" loop and the "Update channel
\* allocation" call of one maintenance pass, and the 300 iterations up to the
\* next pass.  With ieph + 1 = EPHEM_ARRAY_SIZE the loop reads behind eph.
MaintPass ==
    /\ mtPasses < MaxPasses
    /\ LET next == mtIeph + 1
       IN \E beyond \in (IF next >= EPHEM_ARRAY_SIZE THEN BeyondTable ELSE {"invalid"}) :
          LET due == IF next >= EPHEM_ARRAY_SIZE THEN beyond = "valid_near"
                     ELSE NextSetDue(mtEph, next, mtGrx)
              ieph == IF due THEN next ELSE mtIeph
              sbf == IF due THEN RebuildSubframes(mtChan, mtSbfSet, ieph) ELSE mtSbfSet
          IN \E visible \in SUBSET (IF ieph < EPHEM_ARRAY_SIZE THEN ValidIn(mtEph, ieph)
                                    ELSE RxSats) :
                LET st == allocateChannel([chan |-> mtChan, allocatedSat |-> mtAlloc],
                                          visible)
                IN /\ mtIeph' = ieph
                   /\ mtSchedSbf' = sbf
                   /\ mtChan' = st.chan
                   /\ mtAlloc' = st.allocatedSat
                   /\ mtSbfSet' = [i \in Chans |->
                                     IF st.chan[i].prn # 0 /\ st.chan[i].prn # mtChan[i].prn
                                     THEN ieph ELSE sbf[i]]
                   /\ mtRead' = {next, ieph}
    /\ mtPrev' = [ieph |-> mtIeph, grx |-> mtGrx, chan |-> mtChan]
    /\ mtGrx' = incGpsTime(mtGrx, MaintPeriod * IterMs)
    /\ mtPasses' = mtPasses + 1
    /\ UNCHANGED <<mtNeph, mtEph>>
    /\ UNCHANGED <<hvars, schedVars, timeVars, parVars, navVars, rinexVars, startVars>>
    /\ UNCHANGED <<dateVars, codeVars, sumVars>>

NextMaint == MaintPass

(***************************************************************************)
(* date2gps() and gps2date(), on whole seconds.  The C operators / and %   *)
(* on int truncate toward zero; (int) of a double truncates toward zero;   *)
(* floor() rounds down.  g.sec is in seconds here.                         *)
(***************************************************************************)

SECONDS_IN_DAY == 86400
SECONDS_IN_MINUTE == 60
EpochYear == 1980
DaysInWeek == 7
DaysInYear == 365
LeapCycle == 4
EpochDayOffset == 6
JulianGpsEpoch == 2444245
JulianShift == 1537
HoursInDay == 24
MinutesInHour == 60

\* int / int and int % int of C, for b > 0
CDiv(a, b) == IF a >= 0 THEN a \div b ELSE -((-a) \div b)
CMod(a, b) == a - b * CDiv(a, b)

\* int doy[12]
doy == <<0, 31, 59, 90, 120, 151, 181, 212, 243, 273, 304, 334>>

\* the leap days counted without the January/February rule
\* (a faulty variant, used to test what C23 is sensitive to)
LeapDays_NoJanFebRule(t) == CDiv(t.y - EpochYear, LeapCycle) + 1

\* lpdays = ye / 4 + 1; if ((ye % 4) == 0 && t->m <= 2) lpdays--;
LeapDays(t) ==
    LET ye == t.y - EpochYear
    IN IF CMod(ye, LeapCycle) = 0 /\ t.m <= 2 THEN CDiv(ye, LeapCycle) ELSE CDiv(ye, LeapCycle) + 1

date2gps(t) ==
    LET ye == t.y - EpochYear
        de == ye * DaysInYear + doy[t.m] + t.d + LeapDays(t) - EpochDayOffset
    IN [week |-> CDiv(de, DaysInWeek),
        sec |-> CMod(de, DaysInWeek) * SECONDS_IN_DAY + t.hh * SECONDS_IN_HOUR
                   + t.mm * SECONDS_IN_MINUTE + t.sec]

\* (int)((c - 122.1) / 365.25), for c > 122: the quotient is never within
\* 1/7305 of an integer, so the double arithmetic gives the exact floor
JulianYears(c) == CDiv(20 * c - 2442, 7305)

\* (int)(x / 30.6001) and (int)(30.6001 * f), exact for the same reason
JulianMonth(x) == CDiv(x * 10000, 306001)
JulianMonthDays(f) == CDiv(306001 * f, 10000)

gps2date(g) ==
    LET c == 7 * g.week + (g.sec \div SECONDS_IN_DAY) + JulianGpsEpoch + JulianShift
        d == JulianYears(c)
        e == DaysInYear * d + CDiv(d, LeapCycle)
        f == JulianMonth(c - e)
        m == f - 1 - 12 * CDiv(f, 14)
    IN [y |-> d - 4715 - CDiv(7 + m, 10),
        m |-> m,
        d |-> c - e - JulianMonthDays(f),
        hh |-> CMod(CDiv(g.sec, SECONDS_IN_HOUR), HoursInDay),
        mm |-> CMod(CDiv(g.sec, SECONDS_IN_MINUTE), MinutesInHour),
        sec |-> g.sec - SECONDS_IN_MINUTE * (g.sec \div SECONDS_IN_MINUTE)]

\* the calendar: years, days of a month, times of day
DcYears == {1980, 1981, 1999, 2000, 2096, 2099}
DaysInMonth(y, m) ==
    IF m = 2 THEN (IF y % LeapCycle = 0 THEN 29 ELSE 28)
    ELSE IF m \in {4, 6, 9, 11} THEN 30 ELSE 31
DcTimes == {<<0, 0, 0>>, <<1, 0, 0>>, <<12, 34, 56>>, <<23, 59, 59>>}
DcDates ==
    {[y |-> y, m |-> m, d |-> d, hh |-> t[1], mm |-> t[2], sec |-> t[3]] :
        y \in DcYears, m \in 1 .. 12, d \in 1 .. 31, t \in DcTimes}

\* GPS times: weeks up to the one that holds 2100-01-01
DcWeeks == {0, 1, 1023, 1024, 2047, 2048, 6260, 6261}
DcGpsTimes ==
    {[week |-> w, sec |-> day * SECONDS_IN_DAY + t[1] * SECONDS_IN_HOUR
                             + t[2] * SECONDS_IN_MINUTE + t[3]] :
        w \in DcWeeks, day \in 0 .. (DaysInWeek - 1), t \in DcTimes}

NoDate == [y |-> 0, m |-> 0, d |-> 0, hh |-> 0, mm |-> 0, sec |-> 0]

InitDate ==
    /\ dcStep = 0
    /\ dcBack = NoDate
    /\ \/ /\ dcDir = "date"
          /\ dcDate \in {t \in DcDates : t.d <= DaysInMonth(t.y, t.m)}
          /\ dcGps = NoTime
       \/ /\ dcDir = "gps"
          /\ dcGps \in DcGpsTimes
          /\ dcDate = NoDate

InitDateIdle ==
    /\ dcDir = "date"
    /\ dcStep = 2
    /\ dcDate = NoDate
    /\ dcGps = NoTime
    /\ dcBack = NoDate

Date2GpsCall ==
    /\ \/ /\ dcDir = "date" /\ dcStep = 0
          /\ dcGps' = date2gps(dcDate)
          /\ dcBack' = dcBack
       \/ /\ dcDir = "gps" /\ dcStep = 1
          /\ dcBack' = date2gps(dcDate)
          /\ dcGps' = dcGps
    /\ dcStep' = dcStep + 1
    /\ UNCHANGED <<dcDir, dcDate>>
    /\ UNCHANGED <<hvars, schedVars, timeVars, parVars, navVars, rinexVars, startVars>>
    /\ UNCHANGED <<maintVars, codeVars, sumVars>>

Gps2DateCall ==
    /\ \/ /\ dcDir = "gps" /\ dcStep = 0
          /\ dcDate' = gps2date(dcGps)
          /\ dcBack' = dcBack
       \/ /\ dcDir = "date" /\ dcStep = 1
          /\ dcBack' = gps2date(dcGps)
          /\ dcDate' = dcDate
    /\ dcStep' = dcStep + 1
    /\ UNCHANGED <<dcDir, dcGps>>
    /\ UNCHANGED <<hvars, schedVars, timeVars, parVars, navVars, rinexVars, startVars>>
    /\ UNCHANGED <<maintVars, codeVars, sumVars>>

NextDate == Date2GpsCall \/ Gps2DateCall

(***************************************************************************)
(* The code phase and the data bit counters of one allocated channel over  *)
(* the iterations of the synthesis loop: computeCodePhase() at the start of *)
(* an iteration, the sample loop, and generateNavMsg() every 30 s.  The     *)
(* range of the channel is held constant, so that a 0.1 s iteration spans   *)
(* 100 C/A code periods.  The signal travel time is in half milliseconds.   *)
(***************************************************************************)

\* iterations of the synthesis loop in a run
MaxCodeIters == 310

HalfMsPerMs == 2
CodesPerIter == 100
CodesPerBit == 20
BitsPerWord == 30
MsPerWord == 600
RefLeadMs == 6000

\* rho.range / SPEED_OF_LIGHT: 0, 0.5 ms, 1 ms, 67 ms, 99.5 ms, 100 ms
TravelTimes == {0, 1, 2, 134, 199, 200}

\* start times of the channel inside a frame (whole seconds)
CodeStartSecs == {0, 29, 604770}

NoCounters == [iword |-> 0, ibit |-> 0, icode |-> 0]

\* chan->g0 after generateNavMsg(g, chan, .), in ms
NavRef(g) == [week |-> g.week, sec |-> FrameStart(g) * MsPerSec]

\* ms = ((subGpsTime(chan->rho0.g, chan->g0) + 6.0) - rho0.range / SPEED_OF_LIGHT) * 1000.0;
\* ims = (int) ms; iword = ims / 600; ibit = (ims % 600) / 20; icode = ims % 20
computeCodePhase(rho0g, g0, tau) ==
    LET ms2 == (subGpsTime(rho0g, g0) + RefLeadMs) * HalfMsPerMs - tau
        ims == CDiv(ms2, HalfMsPerMs)
        iword == CDiv(ims, MsPerWord)
        rest == ims - iword * MsPerWord
        ibit == CDiv(rest, CodesPerBit)
    IN [iword |-> iword, ibit |-> ibit, icode |-> rest - ibit * CodesPerBit]

\* if (code_phase >= CA_SEQ_LEN) { icode++; if (icode >= 20) { icode = 0; ibit++;
\*     if (ibit >= 30) { ibit = 0; iword++; } } }
CodeRollover(c) ==
    IF c.icode + 1 >= CodesPerBit
    THEN IF c.ibit + 1 >= BitsPerWord
         THEN [iword |-> c.iword + 1, ibit |-> 0, icode |-> 0]
         ELSE [iword |-> c.iword, ibit |-> c.ibit + 1, icode |-> 0]
    ELSE [iword |-> c.iword, ibit |-> c.ibit, icode |-> c.icode + 1]

\* the counters after the samples of an iteration in which k code periods
\* end: a period that ends no data bit only counts icode
RECURSIVE SampleLoop(_, _)
SampleLoop(c, k) ==
    IF k = 0 THEN c
    ELSE IF c.icode + 1 < CodesPerBit
         THEN SampleLoop([c EXCEPT !.icode = c.icode + 1], k - 1)
         ELSE SampleLoop(CodeRollover(c), k - 1)

\* a maintenance that never moves the data bit reference time
\* (a faulty variant, used to test what C25 is sensitive to)
NavRefAfterPass_Never(g, g0) == g0

\* if (igrx % 300 == 0) generateNavMsg(grx, &chan[i], 0): chan->g0 afterwards
NavRefAfterPass(g, g0) == IF MaintenanceDue(g) THEN NavRef(g) ELSE g0

\* allocateChannel at the start time (generateNavMsg(grx, chan, 1), chan->rho0
\* from computeRange at grx), then grx = incGpsTime(grx, 0.1)
InitCode ==
    /\ cpTau \in TravelTimes
    /\ \E w \in StartWeeks, t \in CodeStartSecs :
          LET g == [week |-> w, sec |-> t * MsPerSec]
          IN /\ cpRho0G = g
             /\ cpG0 = NavRef(g)
             /\ cpGrx = incGpsTime(g, IterMs)
    /\ cpAtStart = NoCounters
    /\ cpCnt = NoCounters
    /\ cpIters = 0
    /\ cpPasses = 0

InitCodeIdle ==
    /\ cpTau = 0
    /\ cpRho0G = ZeroTime
    /\ cpG0 = ZeroTime
    /\ cpGrx = ZeroTime
    /\ cpAtStart = NoCounters
    /\ cpCnt = NoCounters
    /\ cpIters = MaxCodeIters
    /\ cpPasses = 0

\* one iteration of while (!plutotx.exit) for the channel: computeCodePhase,
\* chan->rho0 = rho1, the sample loop, the maintenance when it is due, and
\* grx = incGpsTime(grx, 0.1)
CodeIteration ==
    /\ cpIters < MaxCodeIters
    /\ LET c == computeCodePhase(cpRho0G, cpG0, cpTau)
       IN cpAtStart' = c /\ cpCnt' = SampleLoop(c, CodesPerIter)
    /\ cpRho0G' = cpGrx
    /\ cpG0' = NavRefAfterPass(cpGrx, cpG0)
    /\ cpPasses' = IF MaintenanceDue(cpGrx) THEN cpPasses + 1 ELSE cpPasses
    /\ cpGrx' = incGpsTime(cpGrx, IterMs)
    /\ cpIters' = cpIters + 1
    /\ UNCHANGED cpTau
    /\ UNCHANGED <<hvars, schedVars, timeVars, parVars, navVars, rinexVars, startVars>>
    /\ UNCHANGED <<maintVars, dateVars, sumVars>>

NextCode == CodeIteration

(***************************************************************************)
(* The sum of the channels in one I/Q sample: the body of the sample loop  *)
(* of main() without the code and carrier phase updates.                   *)
(***************************************************************************)

\* channels summed in a sample (MAX_CHAN is 12 in the source)
SumChans == 6

\* const double iq_gain, const int iq_offset, const int iq_shift
iq_gain == 18
iq_offset == 32
iq_shift == 6

\* gain[i] is a double; the model keeps it in hundredths
GainUnit == 100

\* gain[i] = path_loss * ant_gain * iq_gain of an allocated channel: the full
\* iq_gain (18.0) and a quarter of it (4.5)
Gains == {iq_gain * GainUnit, (iq_gain * GainUnit) \div 4}

\* iTable, the 9-bit index into the carrier tables: 0, 1/8 and 1/4 of a cycle
TableIndices == {0, 64, 128}

\* cosTable512[] and sinTable512[] at these indices
cosTable512 == (0 :> 32767) @@ (64 :> 23169) @@ (128 :> 0)
sinTable512 == (0 :> 0) @@ (64 :> 23169) @@ (128 :> 32767)

\* chan[i].dataBit * chan[i].codeCA: each is -1 or 1
Signs == {-1, 1}

\* ip = dataBit * codeCA * cosTable512[iTable] * gain[i]: the double product is
\* converted to the int ip, which truncates toward zero
InPhase(sign, iTable, gain) == CDiv(sign * cosTable512[iTable] * gain, GainUnit)
\* qp = dataBit * codeCA * sinTable512[iTable] * gain[i]
Quadrature(sign, iTable, gain) == CDiv(sign * sinTable512[iTable] * gain, GainUnit)

\* x >> n of an int64_t (sign-extending)
ShiftRight(x, n) == x \div (2 ^ n)

\* (short) x: the low 16 bits, as a signed value
ToShort(x) == ((x + 32768) % 65536) - 32768

NoSample == [i |-> 0, q |-> 0]

\* the start of a sample: int64_t i_acc = 0; int64_t q_acc = 0; i = 0
InitSum ==
    /\ sumPc = "channels"
    /\ sumChan = 0
    /\ sumAlloc = 0
    /\ i_acc = 0
    /\ q_acc = 0
    /\ sumOut = NoSample

InitSumIdle ==
    /\ sumPc = "stored"
    /\ sumChan = SumChans
    /\ sumAlloc = 0
    /\ i_acc = 0
    /\ q_acc = 0
    /\ sumOut = NoSample

\* one pass of for (i = 0; i < MAX_CHAN; i++): a channel with prn > 0 adds its
\* ip and qp to the accumulators, an idle channel is skipped
SumChannel ==
    /\ sumPc = "channels" /\ sumChan < SumChans
    /\ \/ \E sign \in Signs, iTable \in TableIndices, gain \in Gains :
             /\ i_acc' = i_acc + InPhase(sign, iTable, gain)
             /\ q_acc' = q_acc + Quadrature(sign, iTable, gain)
             /\ sumAlloc' = sumAlloc + 1
       \/ UNCHANGED <<i_acc, q_acc, sumAlloc>>
    /\ sumChan' = sumChan + 1
    /\ UNCHANGED <<sumPc, sumOut>>
    /\ UNCHANGED <<hvars, schedVars, timeVars, parVars, navVars, rinexVars, startVars>>
    /\ UNCHANGED <<maintVars, dateVars, codeVars>>

\* i_acc = (i_acc + iq_offset) >> iq_shift; q_acc likewise;
\* iq_buff[isamp * 2] = (short) i_acc; iq_buff[isamp * 2 + 1] = (short) q_acc
StoreSample ==
    /\ sumPc = "channels" /\ sumChan = SumChans
    /\ LET i_new == ShiftRight(i_acc + iq_offset, iq_shift)
           q_new == ShiftRight(q_acc + iq_offset, iq_shift)
       IN /\ i_acc' = i_new
          /\ q_acc' = q_new
          /\ sumOut' = [i |-> ToShort(i_new), q |-> ToShort(q_new)]
    /\ sumPc' = "stored"
    /\ UNCHANGED <<sumChan, sumAlloc>>
    /\ UNCHANGED <<hvars, schedVars, timeVars, parVars, navVars, rinexVars, startVars>>
    /\ UNCHANGED <<maintVars, dateVars, codeVars>>

NextSum == SumChannel \/ StoreSample

(***************************************************************************)
(* The specifications.                                                     *)
(***************************************************************************)
InitLoopIdle == InitMaintIdle /\ InitDateIdle /\ InitCodeIdle /\ InitSumIdle

InitFnIdle ==
    InitParityIdle /\ InitNavIdle /\ InitRinexIdle /\ InitStartIdle /\ InitLoopIdle

Init == InitHandoff /\ InitSched /\ InitTimeIdle /\ InitFnIdle

Spec == Init /\ [][Next]_vars

SpecSched == Init /\ [][NextSched]_vars

InitFromStartTimes == InitHandoff /\ InitSched /\ InitTime /\ InitFnIdle

SpecTime == InitFromStartTimes /\ [][NextTime]_vars

InitFromSourceWords ==
    /\ InitHandoff /\ InitSched /\ InitTimeIdle /\ InitParity /\ InitNavIdle
    /\ InitRinexIdle /\ InitStartIdle /\ InitLoopIdle

SpecParity == InitFromSourceWords /\ [][NextParity]_vars

InitFromNavStart ==
    /\ InitHandoff /\ InitSched /\ InitTimeIdle /\ InitParityIdle /\ InitNav
    /\ InitRinexIdle /\ InitStartIdle /\ InitLoopIdle

SpecNav == InitFromNavStart /\ [][NextNav]_vars

InitAtReaderCall ==
    /\ InitHandoff /\ InitSched /\ InitTimeIdle /\ InitParityIdle /\ InitNavIdle
    /\ InitRinex /\ InitStartIdle /\ InitLoopIdle

SpecHeader == InitAtReaderCall /\ [][NextHeader]_vars

InitAfterHeader ==
    /\ InitHandoff /\ InitSched /\ InitTimeIdle /\ InitParityIdle /\ InitNavIdle
    /\ InitRinexRecords /\ InitStartIdle /\ InitLoopIdle

SpecRecords == InitAfterHeader /\ [][NextRecords]_vars

InitAfterReader ==
    /\ InitHandoff /\ InitSched /\ InitTimeIdle /\ InitParityIdle /\ InitNavIdle
    /\ InitRinexIdle /\ InitStart /\ InitLoopIdle

SpecStart == InitAfterReader /\ [][NextStart]_vars

InitAtLoopEntry ==
    /\ InitHandoff /\ InitSched /\ InitTimeIdle /\ InitParityIdle /\ InitNavIdle
    /\ InitRinexIdle /\ InitStartIdle /\ InitMaint /\ InitDateIdle /\ InitCodeIdle
    /\ InitSumIdle

SpecMaint == InitAtLoopEntry /\ [][NextMaint]_vars

InitFromDates ==
    /\ InitHandoff /\ InitSched /\ InitTimeIdle /\ InitParityIdle /\ InitNavIdle
    /\ InitRinexIdle /\ InitStartIdle /\ InitMaintIdle /\ InitDate /\ InitCodeIdle
    /\ InitSumIdle

SpecDate == InitFromDates /\ [][NextDate]_vars

InitAtAllocation ==
    /\ InitHandoff /\ InitSched /\ InitTimeIdle /\ InitParityIdle /\ InitNavIdle
    /\ InitRinexIdle /\ InitStartIdle /\ InitMaintIdle /\ InitDateIdle /\ InitCode
    /\ InitSumIdle

SpecCode == InitAtAllocation /\ [][NextCode]_vars

InitAtSample ==
    /\ InitHandoff /\ InitSched /\ InitTimeIdle /\ InitParityIdle /\ InitNavIdle
    /\ InitRinexIdle /\ InitStartIdle /\ InitMaintIdle /\ InitDateIdle /\ InitCodeIdle
    /\ InitSum

SpecSum == InitAtSample /\ [][NextSum]_vars

\* the steps of the main thread that no other thread can disable
MainSteps ==
    \/ MainLoopTest \/ MainRange \/ MainFill \/ MainSignal \/ MainWait
    \/ MainUnlock \/ MainMaintenance

\* the steps of the TX thread that no other thread can disable
TxSteps == TxInit \/ TxLoopTest \/ TxCopy \/ TxSignal \/ TxUnlock \/ TxPush

\* Both threads keep running, and a thread that asks for the mutex again and
\* again while it is released again and again gets it at some time.  A spurious
\* return of pthread_cond_wait, a signal and a device failure may happen or not.
FairThreads ==
    /\ WF_vars(MainSteps)
    /\ WF_vars(TxSteps)
    /\ SF_vars(MainLock)
    /\ SF_vars(MainWake)
    /\ SF_vars(TxLock)

SpecFair == Init /\ [][Next]_vars /\ FairThreads

(***************************************************************************)
(* Claims about the handoff (checked under Spec).                          *)
(***************************************************************************)

\* main is between the first and the last sample write of a frame
Filling == ppc = "fill" /\ isamp \in 1 .. (NumSamples - 1)

\* the TX thread is inside memcpy(ptx_buffer, iq_buff, BUFFER_SIZE)
Copying == cpc = "copy"

\* iq_buff holds a completely filled frame
BufferComplete == frame >= 1 /\ ~(ppc = "fill" /\ isamp >= 1)

\* main is blocked in pthread_cond_wait and the only thread that signals the
\* condition variable has ended: no signal will ever wake it
ProducerStranded == ppc = "waiting" /\ waiting /\ cpc = "done"

\* C1: whenever the consumer is copying the shared buffer, the producer is not
\* between the first and the last sample write of a frame (the consumer never
\* reads a half-written buffer), signal handler included.
C1_CopyNeverOverlapsFill == ~(Copying /\ Filling)

\* C2: the producer never starts writing a frame over a filled frame of which
\* the consumer has made no complete copy.
C2_NoFrameOverwrittenUncopied == ~lost

\* C3: the consumer copies only a completely filled frame that it has not copied
\* before (never the initial empty buffer, never the same frame twice).
C3_CopyOnlyFreshFrame == Copying => (BufferComplete /\ copies = 0)

\* C4: after an SDR backend failure (no signal involved) the producer never
\* stays blocked waiting for a copy that will not come.
C4_SdrFailureNeverStrandsProducer ==
    ~(sdrFailed /\ hpc = "none" /\ ProducerStranded)

\* C5: after a termination signal has been handled (here: on the main thread,
\* with no SDR failure) no thread remains blocked on the condition variable.
C5_SignalNeverStrandsProducer ==
    ~(~sdrFailed /\ hthread = "main" /\ hpc = "returned" /\ ProducerStranded)

\* C6: every write of the stop flag - by the signal handler, by the producer's
\* exit path and by the consumer's exit path - is made by a thread that holds
\* the mutex at that moment.
C6_StopWrittenUnderMutex ==
    /\ (hpc = "setexit" => mutex = hthread)
    /\ (ppc = "exit_set" /\ ~InHandler("main") => mutex = "main")
    /\ (cpc = "exit_set" /\ ~InHandler("tx") => mutex = "tx")

(***************************************************************************)
(* Claims about the scheduler (checked under SpecSched).                   *)
(***************************************************************************)

\* C7: the alloc table and the channel array agree as a bijection over the
\* allocated entries: allocatedSat[sv] = i iff channel i carries PRN sv+1; no two
\* satellites share a channel, no PRN is on two channels, and at most MAX_CHAN
\* channels are allocated.
C7_AllocBijection ==
    /\ \A sv \in Sats : allocatedSat[sv] \in {-1} \cup Chans
    /\ \A sv \in Sats : \A i \in Chans :
          (allocatedSat[sv] = i) <=> (chan[i].prn = sv + 1)
    /\ \A s1 \in Sats : \A s2 \in Sats :
          (s1 # s2 /\ allocatedSat[s1] # -1) => allocatedSat[s1] # allocatedSat[s2]
    /\ \A i \in Chans : \A j \in Chans :
          (i # j /\ chan[i].prn # 0) => chan[i].prn # chan[j].prn
    /\ Cardinality({sv \in Sats : allocatedSat[sv] # -1}) <= MAX_CHAN

\* a pass that freed a channel and gave it to another satellite, all channels busy
C7_Witness ==
    /\ \A i \in Chans : chan[i].prn # 0
    /\ \E i \in Chans : pre.chan[i].prn # 0 /\ pre.chan[i].prn # chan[i].prn

\* C8: running the scheduler again with the visibility of the pass that has just
\* run leaves the alloc table as that pass left it.
C8_SchedulerIdempotent ==
    allocateChannel([chan |-> chan, allocatedSat |-> allocatedSat], vis).allocatedSat
        = allocatedSat

\* C9: in the pass that has just run, at every satellite the scan found visible
\* and not allocated: with an idle channel, the lowest-index idle channel got
\* PRN sv+1, the satellite's alloc entry is that channel and nothing else
\* changed; with no idle channel, nothing changed at all.
C9_FirstIdleChannelTaken ==
    \A sv \in Sats :
        LET before == ScanTo(pre, sv, vis)
            after == ScanTo(pre, sv + 1, vis)
            idle == {i \in Chans : before.chan[i].prn = 0}
        IN (sv \in vis /\ before.allocatedSat[sv] = -1) =>
              IF idle # {}
              THEN \E i \in idle :
                      /\ \A j \in idle : i <= j
                      /\ after.chan[i].prn = sv + 1
                      /\ after.allocatedSat[sv] = i
                      /\ \A j \in Chans \ {i} : after.chan[j] = before.chan[j]
                      /\ \A s \in Sats \ {sv} :
                            after.allocatedSat[s] = before.allocatedSat[s]
              ELSE after = before

\* a pass in which one satellite took an idle channel that is not channel 0 and
\* a later visible satellite found no idle channel
C9_Witness ==
    /\ allocateChannel(pre, vis) = [chan |-> chan, allocatedSat |-> allocatedSat]
    /\ \E sv \in vis :
          /\ ScanTo(pre, sv, vis).allocatedSat[sv] = -1
          /\ ScanTo(pre, sv, vis).chan[0].prn # 0
          /\ allocatedSat[sv] > 0
    /\ \E sv \in vis :
          /\ ScanTo(pre, sv, vis).allocatedSat[sv] = -1
          /\ \A i \in Chans : ScanTo(pre, sv, vis).chan[i].prn # 0
          /\ allocatedSat[sv] = -1

(***************************************************************************)
(* Claims about the reception time (checked under SpecTime).               *)
(***************************************************************************)

\* C10: the maintenance runs exactly in the iterations whose reception time is
\* a whole multiple of 30 s of the GPS week, and so once every 300 iterations:
\* 300 iterations lie between two maintenances, and never 300 pass without one.
C10_MaintenanceEvery30s ==
    /\ iter >= 1 => (maintRan <=> lastGrx.sec % (30 * MsPerSec) = 0)
    /\ (maintRan /\ gap # -1) => gap = 300
    /\ sinceMaint < 300
    /\ sinceMaint = -1 => iter < 300

\* a maintenance at second 0 of the week after the start week, 300 iterations
\* after the previous one
C10_Witness ==
    /\ maintRan
    /\ lastGrx.sec = 0
    /\ lastGrx.week \notin StartWeeks
    /\ gap = 300

\* C11: after n completed iterations the reception time is the start time plus
\* (n+1) * 0.1 s; every iteration advances it by exactly 0.1 s (never back, never
\* by another amount), and the seconds stay inside the week.
C11_TimeAdvancesTenthPerIteration ==
    /\ subGpsTime(grx, gstart) = (iter + 1) * IterMs
    /\ iter >= 1 => subGpsTime(grx, lastGrx) = IterMs
    /\ grx.sec >= 0 /\ grx.sec < WeekMs

\* the iteration in which the reception time crossed into the next week
C11_Witness ==
    /\ iter >= 1
    /\ lastGrx.week = gstart.week
    /\ grx.week = gstart.week + 1
    /\ grx.sec = 0

(***************************************************************************)
(* Claims about the word parity (checked under SpecParity).                *)
(***************************************************************************)

\* bit D_k (k in 1..30) of a 30-bit word, D1 being the most significant
WordBit(w, k) == Shr(w, 30 - k) % 2

\* the data bits d_i that enter the parity bits D25..D30 (IS-GPS-200, table 20-XIV)
ParityTerms ==
    <<{1, 2, 3, 5, 6, 10, 11, 12, 13, 14, 17, 18, 20, 23},
      {2, 3, 4, 6, 7, 11, 12, 13, 14, 15, 18, 19, 21, 24},
      {1, 3, 4, 5, 7, 8, 12, 13, 14, 15, 16, 19, 20, 22},
      {2, 4, 5, 6, 8, 9, 13, 14, 15, 16, 17, 20, 21, 23},
      {1, 3, 5, 6, 7, 9, 10, 14, 15, 16, 17, 18, 21, 22, 24},
      {3, 5, 6, 8, 9, 10, 11, 13, 15, 19, 22, 23, 24}>>

\* the previous-word bit of each parity equation: 1 for D29*, 0 for D30*
ParityTakesD29 == <<1, 0, 1, 0, 0, 1>>

\* the 30-bit word w, sent after a word ending in D29*, D30*, satisfies the six
\* parity equations: D_(24+k) = Dprev + sum of d_i over ParityTerms[k] (mod 2),
\* with d_i = D_i + D30*
SatisfiesParity(w, D29, D30) ==
    \A k \in 1 .. 6 :
        WordBit(w, 24 + k) =
            ((IF ParityTakesD29[k] = 1 THEN D29 ELSE D30)
             + Cardinality({i \in ParityTerms[k] : (WordBit(w, i) + D30) % 2 = 1})) % 2

ckD29 == Shr(ckSource.hi, 1) % 2
ckD30 == ckSource.hi % 2
ckPayload == Shr(ckSource.lo, 6)

\* C12: the word computeChecksum returns is a 30-bit word that satisfies the six
\* GPS parity equations against D29*, D30*; with nib = false its data bits are
\* the payload (inverted when D30* is set); with nib = true its two trailing
\* bits D29 and D30 are both zero.
C12_ParityEquationsHold ==
    ckDone =>
        /\ ckWord >= 0 /\ ckWord <= WordMask
        /\ SatisfiesParity(ckWord, ckD29, ckD30)
        /\ ~ckNib => \A i \in 1 .. 24 :
                        WordBit(ckWord, i) = (Shr(ckPayload, 24 - i) + ckD30) % 2
        /\ ckNib => (WordBit(ckWord, 29) = 0 /\ WordBit(ckWord, 30) = 0)

\* a call with nib = true, D29* = D30* = 1, that had to flip both solved bits
C12_Witness ==
    /\ ckDone /\ ckNib
    /\ ckSource.hi = 3
    /\ WordBit(ckWord, 23) # (Shr(ckPayload, 1) + 1) % 2
    /\ WordBit(ckWord, 24) # (ckPayload + 1) % 2

TlmSource == [hi |-> 0, lo |-> \H22C000C0]

\* C13 as stated: source word 0x22C000C0 with D29* = D30* = 0 and nib = false
\* gives exactly 0x22C000FC.
C13_FixedVector_AsStated ==
    (ckDone /\ ckSource = TlmSource /\ ~ckNib) => ckWord = \H22C000FC

\* C13: source word 0x22C000C0 with D29* = D30* = 0 and nib = false gives
\* exactly 0x22C000E4 (parity bits 100100).
C13_FixedVector ==
    (ckDone /\ ckSource = TlmSource /\ ~ckNib) => ckWord = \H22C000E4

C13_Witness == ckDone /\ ckSource = TlmSource /\ ~ckNib /\ ckWord = \H22C000E4

(***************************************************************************)
(* Claims about the navigation message (checked under SpecNav).            *)
(***************************************************************************)

\* the TOW-count in bits 30:14 of word 2 of the ring's subframe k (0 .. N_SBF)
RingTow(k) == BitAnd(Shr(dwrd[k * N_DWRD_SBF + 2], 13), TowMask)

\* the week in bits 30:21 of word 3 of the ring's subframe 1
RingWeek == BitAnd(Shr(dwrd[N_DWRD_SBF + 3], 20), WnMask)

\* C14: in the ring generateNavMsg leaves, every subframe's TOW-count (bits 30:14
\* of its word 2) is one more than the TOW-count of the subframe before it, the
\* tail subframe retained from the previous batch included; the first new
\* subframe has the TOW-count of its own frame start plus one; word 3 of
\* subframe 1 has the transmission week (mod 1024) in bits 30:21.
C14_FrameLayout ==
    navCalls >= 1 =>
        /\ \A k \in 1 .. N_SBF : RingTow(k) = RingTow(k - 1) + 1
        /\ RingTow(1) = navG0.sec \div SubframeSec + 1
        /\ RingWeek = navG0.week % WeekMod

\* C29: every TOW-count written into word 2 of a subframe is a time-of-week
\* count in 6-second units, at least 0 and less than 100800, whatever the
\* frame start in the week, the last frame of a week included.
C29_TowCountInRange ==
    navCalls >= 1 =>
        \A k \in 0 .. N_SBF :
            RingTow(k) >= 0 /\ RingTow(k) < SECONDS_IN_WEEK \div SubframeSec

(***************************************************************************)
(* Claims about the ephemeris readers (checked under SpecRecords and       *)
(* SpecHeader).                                                            *)
(***************************************************************************)

\* C15: when the reader has returned, the value is a negative error or the number
\* of sets actually populated, between 0 and EPHEM_ARRAY_SIZE, and only sets
\* 0 .. EPHEM_ARRAY_SIZE-1 were written.
C15_ReturnsPopulatedSets ==
    rxPc = "returned" =>
        /\ rxTouched \subseteq RxSets
        /\ \/ rxRet < 0
           \/ /\ rxRet >= 0 /\ rxRet <= EPHEM_ARRAY_SIZE
              /\ rxRet = Cardinality(rxTouched)

\* C17: when the reader has returned, every record marked valid holds in all
\* its fields the values of one single block of the input.
C17_ValidRecordsAtomic ==
    rxPc = "returned" =>
        \A i \in RxSets, sv \in RxSats :
            rxEph[i][sv].vflg =>
                \E b \in 1 .. MaxRxBlocks : \A l \in FieldLines : rxEph[i][sv].src[l] = b

IonoLines == {"alpha", "beta", "dutc", "leap"}

PreStreamingError == neph <= 0 \/ stErr \in {"invalid_time", "no_set", "alloc"}

\* C16: when the process has ended after a fatal pre-streaming error, its exit
\* code is 1, the TX thread was never started and no frame was synthesized;
\* exit code 0 ends only a run that started streaming.
C16_FatalErrorsExitOne ==
    stPc = "exited" =>
        /\ PreStreamingError => (exitCode = 1 /\ ~threadStarted /\ ~framesMade)
        /\ exitCode = 0 => (threadStarted /\ ~PreStreamingError)

\* the TOCs of the valid records of sets 0 .. n-1
ValidTocs(table, n) ==
    {table[i][sv].toc : <<i, sv>> \in {x \in StSets \X RxSats : x[1] < n /\ table[x[1]][x[2]].vflg}}

EarliestToc(table, n) ==
    CHOOSE t \in ValidTocs(table, n) : \A u \in ValidTocs(table, n) : subGpsTime(u, t) >= 0

LatestToc(table, n) ==
    CHOOSE t \in ValidTocs(table, n) : \A u \in ValidTocs(table, n) : subGpsTime(t, u) >= 0

AnchorStageDone == stPc \notin {"load", "window", "anchor"}

\* C19: with a start time given and the overwrite disabled, the start-up has
\* ended with the "Invalid start time" error exactly if the start time lies
\* outside [earliest TOC, latest TOC] of the valid records of the table; with no
\* start time given, the start time becomes the earliest TOC of the table.
C19_AnchorWindow ==
    (AnchorStageDone /\ neph >= 1 /\ ValidTocs(ephRead, neph) # {}) =>
        /\ (stAnchor.week >= 0 /\ ~timeoverwrite) =>
              (stErr = "invalid_time" <=>
                  \/ subGpsTime(stAnchor, EarliestToc(ephRead, neph)) < 0
                  \/ subGpsTime(LatestToc(ephRead, neph), stAnchor) < 0)
        /\ stAnchor.week < 0 => stG0 = EarliestToc(ephRead, neph)

\* C20: with a start time given and the overwrite enabled, every valid record of
\* the sets 0 .. neph-1 has its TOC and its TOE moved by delta = (start time
\* aligned down to 2 hours) - (earliest TOC of the table), the earliest TOC
\* becomes the aligned start time, and the other records are untouched.
C20_OverwriteShiftsByDelta ==
    (AnchorStageDone /\ neph >= 1 /\ ValidTocs(ephRead, neph) # {}
        /\ stAnchor.week >= 0 /\ timeoverwrite) =>
        LET aligned == AlignAnchor(stAnchor)
            delta == subGpsTime(aligned, EarliestToc(ephRead, neph))
        IN /\ \A i \in StSets, sv \in RxSats :
                 IF i < neph /\ ephRead[i][sv].vflg
                 THEN /\ eph[i][sv].vflg
                      /\ eph[i][sv].toc = incGpsTime(ephRead[i][sv].toc, delta)
                      /\ eph[i][sv].toe = incGpsTime(ephRead[i][sv].toe, delta)
                 ELSE eph[i][sv] = ephRead[i][sv]
           /\ EarliestToc(eph, neph) = aligned

\* the set selection has run
SelectionDone ==
    \/ stPc \in {"alloc", "create", "stream", "exit_main"}
    \/ stPc = "exited" /\ stErr \in {"no_set", "alloc", "none"}

\* anchor - TOC in [-3600 s, +3600 s)
WithinHour(g, toc) ==
    LET dt == subGpsTime(g, toc)
    IN dt >= -(SECONDS_IN_HOUR * MsPerSec) /\ dt < SECONDS_IN_HOUR * MsPerSec

\* the earliest TOC of the valid records of set i
EarliestTocOf(table, i) ==
    LET tocs == {table[i][sv].toc : sv \in ValidIn(table, i)}
    IN CHOOSE t \in tocs : \A u \in tocs : subGpsTime(u, t) >= 0

\* the sets whose earliest valid TOC is within one hour of the start time
SetsByEarliestToc ==
    {i \in StSets : i < neph /\ ValidIn(eph, i) # {}
                      /\ WithinHour(stG0, EarliestTocOf(eph, i))}

\* the sets holding some valid record whose TOC is within one hour of it
SetsByAnyToc ==
    {i \in StSets : i < neph /\ \E sv \in ValidIn(eph, i) : WithinHour(stG0, eph[i][sv].toc)}

\* C21 as stated: once the selection has run, it has failed with the "No current
\* set" error exactly if no set's earliest valid TOC is within one hour of the
\* start time, and otherwise the selected set is one whose earliest valid TOC is.
C21_SelectsByEarliestToc_AsStated ==
    SelectionDone =>
        /\ stErr = "no_set" <=> SetsByEarliestToc = {}
        /\ stErr # "no_set" => stIeph \in SetsByEarliestToc

\* C21: once the selection has run, it has failed with the "No current set"
\* error exactly if no set holds a valid record whose TOC is within one hour of
\* the start time, and otherwise the selected set is the lowest set holding such
\* a record; that set is one of the sets returned and holds a valid record.
C21_SelectsFirstSetWithTocInWindow ==
    SelectionDone =>
        /\ stErr = "no_set" <=> SetsByAnyToc = {}
        /\ stErr # "no_set" =>
              /\ stIeph \in SetsByAnyToc
              /\ \A j \in SetsByAnyToc : stIeph <= j
              /\ stIeph >= 0 /\ stIeph < neph /\ ValidIn(eph, stIeph) # {}

\* a set has been selected whose earliest valid TOC is more than an hour before
\* the start time
C21_Witness ==
    /\ SelectionDone /\ stIeph >= 0
    /\ ~WithinHour(stG0, EarliestTocOf(eph, stIeph))

\* C24: with the overwrite enabled, a start time given and a valid record in the
\* first set of the table read, the start-up never ends with a fatal error of
\* the start time or of the set selection.
C24_OverwriteAlwaysStarts ==
    (timeoverwrite /\ stAnchor.week >= 0 /\ neph >= 1 /\ ValidIn(ephRead, 0) # {}) =>
        stErr \notin {"noeph", "invalid_time", "no_set"}

(***************************************************************************)
(* Claims about the ephemeris refresh (checked under SpecMaint).           *)
(***************************************************************************)

\* the set after the one that was current before the last pass
PrevNext == mtPrev.ieph + 1

\* C22: in the pass that has just run, the current set moved to the next set
\* exactly if that set is one of the sets returned, holds a valid record and
\* its earliest TOC was less than an hour ahead of grx; the index moved by one
\* or not at all; and when it moved, every channel that was allocated had its
\* subframes built from the new set when the scheduler was called.
C22_AdvanceToNextSet ==
    mtPasses > 0 =>
        /\ mtIeph \in {mtPrev.ieph, PrevNext}
        /\ mtIeph = PrevNext <=>
              /\ PrevNext < mtNeph
              /\ ValidIn(mtEph, PrevNext) # {}
              /\ subGpsTime(EarliestTocOf(mtEph, PrevNext), mtPrev.grx)
                    < SECONDS_IN_HOUR * MsPerSec
        /\ mtIeph = PrevNext =>
              \A i \in Chans : mtPrev.chan[i].prn # 0 => mtSchedSbf[i] = mtIeph

\* C26: the current set is one of the sets returned, the reader returned no more
\* sets than eph holds, and every index of eph used in the last pass is inside
\* eph.
C26_IephInsideTable ==
    /\ mtIeph >= 0 /\ mtIeph < mtNeph /\ mtNeph <= EPHEM_ARRAY_SIZE
    /\ \A i \in mtRead : i >= 0 /\ i < EPHEM_ARRAY_SIZE

(***************************************************************************)
(* Claims about the time conversions (checked under SpecDate).             *)
(***************************************************************************)

InClaimedYears(t) == t.y >= EpochYear /\ t.y <= 2099

\* 1980-01-06 00:00:00, the GPS epoch, or later
FromGpsEpoch(t) == t.y > EpochYear \/ t.m > 1 \/ t.d >= EpochDayOffset

\* C23 as stated: after both calls, a date-time of the years 1980-2099 comes
\* back from date2gps then gps2date unchanged, and a GPS time whose date is in
\* those years comes back from gps2date then date2gps unchanged.
C23_RoundTrip_AsStated ==
    dcStep = 2 =>
        /\ (dcDir = "date" /\ InClaimedYears(dcDate)) => dcBack = dcDate
        /\ (dcDir = "gps" /\ InClaimedYears(dcDate)) => dcBack = dcGps

\* C23: after both calls, a date-time from 1980-01-06 00:00:00 to the end of
\* 2099 comes back from date2gps then gps2date unchanged, and a GPS time with
\* week >= 0 and 0 <= sec < 604800 whose date is in the years 1980-2099 comes
\* back from gps2date then date2gps unchanged.
C23_RoundTripFromEpoch ==
    dcStep = 2 =>
        /\ (dcDir = "date" /\ InClaimedYears(dcDate) /\ FromGpsEpoch(dcDate)) =>
              dcBack = dcDate
        /\ (dcDir = "gps" /\ InClaimedYears(dcDate)) => dcBack = dcGps

\* the last second of a 29th of February has made the round trip
C23_Witness ==
    /\ dcStep = 2 /\ dcDir = "date"
    /\ dcDate = [y |-> 2096, m |-> 2, d |-> 29, hh |-> 23, mm |-> 59, sec |-> 59]
    /\ dcBack = dcDate

(***************************************************************************)
(* Claims about the data bit counters (checked under SpecCode).            *)
(***************************************************************************)

\* 0 <= icode < 20, 0 <= ibit < 30, 0 <= iword < N_DWRD
CountersInRing(c) ==
    /\ c.icode >= 0 /\ c.icode < CodesPerBit
    /\ c.ibit >= 0 /\ c.ibit < BitsPerWord
    /\ c.iword >= 0 /\ c.iword < N_DWRD

KeptSats == {sv \in Sats : pre.allocatedSat[sv] # -1 /\ sv \in vis}

\* C27: after a pass, every satellite that had a channel before the pass and was
\* visible in it has the same alloc-table entry, and its channel holds what it
\* held before the pass: the PRN and everything the initialisation wrote.
C27_KeptChannelsUnchanged ==
    \A sv \in KeptSats :
        /\ allocatedSat[sv] = pre.allocatedSat[sv]
        /\ chan[allocatedSat[sv]] = pre.chan[pre.allocatedSat[sv]]

\* a pass that kept one satellite, freed the channel of another and gave that
\* channel to a third
C27_Witness ==
    /\ KeptSats # {}
    /\ \E i \in Chans :
          /\ pre.chan[i].prn # 0 /\ chan[i].prn # 0
          /\ pre.chan[i].prn # chan[i].prn


(***************************************************************************)
(* Claims about the progress of the handoff (checked under SpecFair).      *)
(***************************************************************************)

\* no stop was asked for and no device call has failed
Streaming == ~exit /\ ~sdrFailed /\ hpc = "none"

\* iq_buff holds a completely filled frame of which no copy was made yet
FramePending == BufferComplete /\ copies = 0

\* a copy of the frame in iq_buff was made, and no frame before it was
\* overwritten without a copy
FrameCopied == copies >= 1 /\ ~lost

\* C28: while the stop flag is false and the device pushes return, under fair
\* scheduling of both threads every frame the producer fills is eventually
\* copied by the consumer, and the producer blocked in pthread_cond_wait is
\* eventually woken to go on with its iteration.
C28_HandoffProgress ==
    ([]Streaming) =>
        /\ [](FramePending => <>FrameCopied)
        /\ [](ppc = "waiting" => <>(ppc = "unlock"))


(***************************************************************************)
(* Claims about the sum of the channels (checked under SpecSum).           *)
(***************************************************************************)

\* the values a 16-bit sample can hold
ShortRange == -32768 .. 32767

\* C30: with 16-bit tables, gain 18, offset 32 and shift 6, for any number of
\* allocated channels, any data-bit and chip signs and any carrier table
\* indices, with each channel's gain at most iq_gain, the accumulators after
\* the offset and the shift lie in [-32768, 32767], so that the cast to a
\* 16-bit sample does not change them.
C30_SampleNeverWraps ==
    sumPc = "stored" =>
        /\ i_acc \in ShortRange /\ q_acc \in ShortRange
        /\ sumOut = [i |-> i_acc, q |-> q_acc]

====
